---- MODULE Spec2Model ----
(***************************************************************************)
(* Booking Action Orchestrator (app/services/booking_service.py).          *)
(*                                                                         *)
(* State: the Booking table of the local store, the external availability  *)
(* sheet (available / reserved slot labels per specialist and date), and   *)
(* the result record of the last booking action together with the calls    *)
(* that action made.  One action per route of process_booking_action.      *)
(***************************************************************************)
EXTENDS Integers, Sequences, FiniteSets, TLC

\* ------------------------------------------------------------------ bounds
\* Number of booking actions explored from the empty store.
MaxOps == 3

\* --------------------------------------------------------------- constants
SlotMinutes == 30
MinutesPerDay == 1440
DoubleDurationMinutes == 60
FallbackOffsetMinutes == 180
CurrentYear == 2025

NoneStr == "None"
NoDate == 0
NoTime == -1

\* project_config of the service instance under study
ProjectId == "p1"
Specialists == {"Olga", "Anna"}
Services == [massage |-> 2, peeling |-> 1]
ServiceNames == DOMAIN Services

Clients == {"c1", "c2"}

\* str.lower() on the specialist names that occur
Lower(s) ==
    CASE s = "Olga" -> "olga"
      [] s = "Anna" -> "anna"
      [] s = "Zoya" -> "zoya"
      [] OTHER -> s

\* ------------------------------------------------------ date / time values
\* A date string is [fmt, d, m, y]: "dmy" is DD.MM.YYYY, "dm" is DD.MM,
\* "iso" is YYYY-MM-DD, "slash" is DD/MM/YYYY, "none" is a missing field.
\* A time string is [fmt, h, m]: "colon" is HH:MM, "dot" is HH.MM.
DateStr(f, d, m, y) == [fmt |-> f, d |-> d, m |-> m, y |-> y]
TimeStr(f, h, m) == [fmt |-> f, h |-> h, m |-> m]
NoDateStr == DateStr("none", 0, 0, 0)
NoTimeStr == TimeStr("none", 0, 0)

IsLeap(y) == (y % 4 = 0 /\ y % 100 # 0) \/ y % 400 = 0
DaysIn(m, y) ==
    IF m = 2 THEN (IF IsLeap(y) THEN 29 ELSE 28)
    ELSE IF m \in {4, 6, 9, 11} THEN 30 ELSE 31
ValidDate(d, m, y) == y \in 1..9999 /\ m \in 1..12 /\ d \in 1..DaysIn(m, y)
MkDate(d, m, y) == y * 10000 + m * 100 + d

\* _parse_date: split on '.', three parts -> %d.%m.%Y, two parts -> append the
\* current year; anything else (and any exception) -> None.
ParseDate(s) ==
    IF s.fmt = "dmy" /\ ValidDate(s.d, s.m, s.y) THEN MkDate(s.d, s.m, s.y)
    ELSE IF s.fmt = "dm" /\ ValidDate(s.d, s.m, CurrentYear)
         THEN MkDate(s.d, s.m, CurrentYear)
    ELSE NoDate

\* the inline parse of _activate_booking: strptime %d.%m.%Y, then strptime
\* %d.%m (which validates the day against 1900) with the year replaced.
ParseDateCreate(s) ==
    IF s.fmt = "dmy" /\ ValidDate(s.d, s.m, s.y) THEN MkDate(s.d, s.m, s.y)
    ELSE IF s.fmt = "dm" /\ ValidDate(s.d, s.m, 1900)
         THEN MkDate(s.d, s.m, CurrentYear)
    ELSE NoDate

\* _parse_time: strptime %H:%M, None on any exception. A time is its minute
\* of the day.
ParseTime(s) ==
    IF s.fmt = "colon" /\ s.h \in 0..23 /\ s.m \in 0..59 THEN s.h * 60 + s.m
    ELSE NoTime

\* time.strftime("%H:%M"): the label under which the sheet lists a slot
FormatHM(t) == <<t \div 60, t % 60>>

\* (datetime.combine(date, time) + timedelta(minutes=30*i)).time()
SlotTime(t, i) == (t + SlotMinutes * i) % MinutesPerDay

\* slots_to_check / occupied_slots: the start times of the unit slots taken
SlotTimes(t, n) == [i \in 1..n |-> SlotTime(t, i - 1)]
SlotLabels(t, n) == [i \in 1..n |-> FormatHM(SlotTime(t, i - 1))]

Range(f) == {f[i] : i \in DOMAIN f}

\* ------------------------------------------------------------------- state
VARIABLES
    bookings,       \* the Booking table: a sequence of rows, id = position
    sheetAvail,     \* the feed: <<specialist key, date, label>> listed free
    sheetReserved,  \* the feed: <<specialist key, date, label>> listed reserved
    last,           \* result record and call log of the last booking action
    nOps,           \* booking actions processed so far
    inflight,       \* create requests in flight: position and snapshot read
    parse,          \* a call of _parse_date: its argument and what it returned
    probe,          \* a call of _is_slot_available: arguments and return value
    split,          \* a call of _split_combined_procedure: position and lists
    current_provider,   \* provider_switcher._current_provider
    provider_history,   \* provider_switcher._provider_history
    switch_result       \* what the last call of the provider switcher returned

\* the helper calls that are followed on their own
unit == <<probe, split>>
\* the state of the provider switcher
switcher == <<current_provider, provider_history, switch_result>>
vars == <<bookings, sheetAvail, sheetReserved, last, nOps, inflight, parse,
          probe, split, current_provider, provider_history, switch_result>>

Active(b) == b.status = "active"
Ids == DOMAIN bookings

NoResult ==
    [success |-> FALSE, action |-> "null", message |-> "", ids |-> <<>>,
     slots |-> <<>>, names |-> <<>>, failed |-> 0]

\* What a handler returns, together with what it did on the way:
\*   rows      the Booking table it leaves behind
\*   avail, reserved   the sheet it leaves behind
\*   result    the result record (action filled in by the dispatcher)
\*   events    the external and store calls it made, in order
\*   raised    TRUE when it ended by raising instead of returning
Outcome(rows, av, rs, res, ev, raised) ==
    [rows |-> rows, avail |-> av, reserved |-> rs, result |-> res,
     events |-> ev, raised |-> raised]

Fail(msg, ev) ==
    Outcome(bookings, sheetAvail, sheetReserved,
            [NoResult EXCEPT !.message = msg], ev, FALSE)

\* ------------------------------------------------ the availability feed
\* GoogleSheetsService: the sheet keeps, per specialist key and date, the slot
\* labels listed free and the slot labels listed reserved.
Key(specialist) == Lower(specialist)

\* get_available_slots_async(...).slots_by_specialist.get(key, [])
SnapshotAvailable(specialist, d) ==
    {c[3] : c \in {x \in sheetAvail : x[1] = Key(specialist) /\ x[2] = d}}
\* get_available_slots_async(...).reserved_slots_by_specialist.get(key, [])
SnapshotReserved(specialist, d) ==
    {c[3] : c \in {x \in sheetReserved : x[1] = Key(specialist) /\ x[2] = d}}

Cells(specialist, d, t, n) ==
    {<<Key(specialist), d, l>> : l \in Range(SlotLabels(t, n))}

\* update_single_booking_slot_async(specialist, booking): the booking's unit
\* slots become reserved and stop being listed free
ReserveAvail(av, b) ==
    av \ Cells(b.specialist, b.date, b.time, b.duration \div SlotMinutes)
ReserveReserved(rs, b) ==
    rs \cup Cells(b.specialist, b.date, b.time, b.duration \div SlotMinutes)
\* clear_booking_slot_async(specialist, date, time, duration_slots)
ClearAvail(av, specialist, d, t, n) == av \cup Cells(specialist, d, t, n)
ClearReserved(rs, specialist, d, t, n) == rs \ Cells(specialist, d, t, n)
\* a faulty lookup: every slot is reported free
IsSlotAvailableUnchecked(specialist, d, t) == TRUE

\* is_slot_available_in_sheets_async(specialist, date, time)
IsSlotAvailableInSheets(specialist, d, t) ==
    /\ <<Key(specialist), d, FormatHM(t)>> \in sheetAvail
    /\ <<Key(specialist), d, FormatHM(t)>> \notin sheetReserved

\* ----------------------------------------------------------------- intents
\* ClaudeMainResponse. gpt_times and gpt_procedures stand for the
\* "<time> to <Name>" and "<Name> - <procedure>" mentions the free text of
\* gpt_response holds; times_set_up_list, times_reject_list and
\* procedures_list are the per-specialist lists the intent carries.
BaseIntent ==
    [activate |-> FALSE, reject |-> FALSE, change |-> FALSE, double |-> FALSE,
     specialists_list |-> <<>>, cosmetolog |-> NoneStr,
     date_order |-> NoDateStr, time_set_up |-> NoTimeStr,
     date_reject |-> NoDateStr, time_reject |-> NoTimeStr,
     procedure |-> NoneStr, gpt_times |-> <<>>, gpt_procedures |-> <<>>,
     times_set_up_list |-> <<>>, times_reject_list |-> <<>>,
     procedures_list |-> <<>>]

Missing(x) == x = NoneStr
MissingDate(s) == s.fmt = "none"
MissingTime(s) == s.fmt = "none"

\* ------------------------------------------------------- single create
\* the slot count of the service, after the renormalization attempt
\* (env.normalize is what normalize_service_name returns, or "raise")
\* a faulty duration: no slot is counted
DurationSlotsZero(r, env) == 0

\* a faulty duration: an unknown service is never renormalized
DurationSlotsNoNormalize(r, env) ==
    IF ~Missing(r.procedure) /\ r.procedure \in ServiceNames
    THEN Services[r.procedure]
    ELSE 1

DurationSlots(r, env) ==
    IF ~Missing(r.procedure) /\ r.procedure \in ServiceNames
    THEN Services[r.procedure]
    ELSE IF ~Missing(r.procedure) /\ env.normalize # "raise"
            /\ env.normalize \in ServiceNames
    THEN Services[env.normalize]
    ELSE 1

NormalizedService(r, env) ==
    IF ~Missing(r.procedure) /\ r.procedure \notin ServiceNames
       /\ env.normalize # "raise"
    THEN env.normalize
    ELSE r.procedure

\* unavailable_slots: a slot is listed once when it is not in the available
\* list and once more when it is in the reserved list
RECURSIVE UnavailableSlots(_, _, _)
UnavailableSlots(labels, available, reserved) ==
    IF labels = <<>> THEN <<>>
    ELSE (IF Head(labels) \notin available THEN <<Head(labels)>> ELSE <<>>)
         \o (IF Head(labels) \in reserved THEN <<Head(labels)>> ELSE <<>>)
         \o UnavailableSlots(Tail(labels), available, reserved)

NewBooking(rows, client, specialist, d, t, minutes, service) ==
    [id |-> Len(rows) + 1, project |-> ProjectId, client |-> client,
     specialist |-> specialist, date |-> d, time |-> t,
     duration |-> minutes, service |-> service, status |-> "active"]

\* the outcome of the k-th sheet update of an action: "ok", "false" or "raise"
SyncAt(env, k) == IF k <= Len(env.sync) THEN env.sync[k] ELSE "ok"

\* the steps of _activate_booking after a successful commit: sheet update,
\* dialogue export, reminder table; none of them can fail the booking
AfterCreate(b, rows, env) ==
    LET synced == SyncAt(env, 1) = "ok"
    IN Outcome(rows,
               IF synced THEN ReserveAvail(sheetAvail, b) ELSE sheetAvail,
               IF synced THEN ReserveReserved(sheetReserved, b)
               ELSE sheetReserved,
               [NoResult EXCEPT !.success = TRUE, !.message = "created",
                                !.ids = <<b.id>>],
               <<"get_available_slots", "commit", "update_slot",
                 "export_dialogue", "make_table">>,
               FALSE)

\* a faulty slot check: only the start slot is looked up
SlotCheckStartOnly(labels, available, reserved) ==
    UnavailableSlots(<<Head(labels)>>, available, reserved)

\* a faulty slot check: a start time held by an active row of the local store
\* is refused whatever the snapshot says
SlotCheckLocalStore(labels, available, reserved) ==
    IF \E i \in Ids : Active(bookings[i])
                      /\ FormatHM(bookings[i].time) \in Range(labels)
    THEN labels
    ELSE UnavailableSlots(labels, available, reserved)

\* the slot check of _activate_booking on the snapshot just read
SlotCheck(labels, available, reserved) ==
    UnavailableSlots(labels, available, reserved)

\* ------------------------------------------------------- single cancel
Lowest(S) == CHOOSE i \in S : \A j \in S : i <= j
Highest(S) == CHOOSE i \in S : \A j \in S : i >= j
\* Query.first() of a query with no ORDER BY: one of the matching rows
First(S, pick) == IF pick = "lo" THEN Lowest(S) ELSE Highest(S)

\* a faulty lookup: the status of the row is not looked at
MatchRowsAnyStatus(rows, client, specialist, d, t) ==
    {i \in DOMAIN rows :
        /\ rows[i].project = ProjectId
        /\ rows[i].client = client
        /\ rows[i].specialist = specialist
        /\ rows[i].date = d
        /\ rows[i].time = t}

\* a faulty lookup: neither the tenant nor the client of the row is looked at
MatchRowsAnyOwner(rows, client, specialist, d, t) ==
    {i \in DOMAIN rows :
        /\ rows[i].specialist = specialist
        /\ rows[i].date = d
        /\ rows[i].time = t
        /\ Active(rows[i])}

\* the filter shared by the cancel and reschedule lookups
MatchRows(rows, client, specialist, d, t) ==
    {i \in DOMAIN rows :
        /\ rows[i].project = ProjectId
        /\ rows[i].client = client
        /\ rows[i].specialist = specialist
        /\ rows[i].date = d
        /\ rows[i].time = t
        /\ Active(rows[i])}

RejectSingleBooking(r, client, env) ==
    LET d == ParseDate(r.date_reject)
        t == ParseTime(r.time_reject)
        m == MatchRows(bookings, client, r.cosmetolog, d, t)
    IN IF d = NoDate \/ t = NoTime THEN Fail("bad_date_or_time", <<>>)
       ELSE IF m = {} THEN Fail("not_found", <<>>)
       ELSE
         LET i == First(m, env.pick)
             b == bookings[i]
             n == b.duration \div SlotMinutes
             cleared == env.clear = "ok"
         IN IF env.db # "ok" THEN Fail("cancel_error", <<"commit">>)
            ELSE Outcome(
                   [bookings EXCEPT ![i].status = "cancelled"],
                   IF cleared
                   THEN ClearAvail(sheetAvail, b.specialist, b.date, b.time, n)
                   ELSE sheetAvail,
                   IF cleared
                   THEN ClearReserved(sheetReserved, b.specialist, b.date,
                                      b.time, n)
                   ELSE sheetReserved,
                   [NoResult EXCEPT !.success = TRUE, !.message = "cancelled",
                                    !.ids = <<i>>],
                   <<"commit", "clear_slot", "log_cancellation">>, FALSE)

\* ------------------------------------------------------- double cancel
\* the loop over specialists_list; acc is the session's view of the rows, the
\* sheet, the rows cancelled so far and the calls made
RECURSIVE RejectLoop(_, _, _, _, _, _)
RejectLoop(list, client, d, t, env, acc) ==
    IF list = <<>> THEN acc
    ELSE
      LET m == MatchRows(acc.rows, client, Head(list), d, t)
      IN IF m = {} THEN RejectLoop(Tail(list), client, d, t, env, acc)
         ELSE
           LET i == First(m, env.pick)
               b == acc.rows[i]
               n == b.duration \div SlotMinutes
               cleared == env.clear = "ok"
           IN RejectLoop(Tail(list), client, d, t, env,
                [rows |-> [acc.rows EXCEPT ![i].status = "cancelled"],
                 avail |-> IF cleared
                           THEN ClearAvail(acc.avail, b.specialist, b.date,
                                           b.time, n)
                           ELSE acc.avail,
                 reserved |-> IF cleared
                              THEN ClearReserved(acc.reserved, b.specialist,
                                                 b.date, b.time, n)
                              ELSE acc.reserved,
                 ids |-> Append(acc.ids, i),
                 events |-> acc.events \o
                            (IF cleared
                             THEN <<"clear_slot", "log_cancellation">>
                             ELSE <<"clear_slot">>)])

\* a faulty double cancel: nothing is cancelled unless every listed specialist
\* has a matching row
RejectDoubleAllOrNothing(r, client, env) ==
    LET d == ParseDate(r.date_reject)
        t == ParseTime(r.time_reject)
        acc == RejectLoop(r.specialists_list, client, d, t, env,
                          [rows |-> bookings, avail |-> sheetAvail,
                           reserved |-> sheetReserved, ids |-> <<>>,
                           events |-> <<>>])
    IN IF Len(r.specialists_list) < 2
       THEN Fail("not_enough_specialists", <<>>)
       ELSE IF d = NoDate \/ t = NoTime THEN Fail("bad_date_or_time", <<>>)
       ELSE IF env.db # "ok" THEN Fail("cancel_error", <<"commit">>)
       ELSE IF Len(acc.ids) < Len(r.specialists_list)
       THEN Fail("not_found", <<"commit">>)
       ELSE Outcome(acc.rows, acc.avail, acc.reserved,
                    [NoResult EXCEPT !.success = TRUE, !.message = "cancelled",
                                     !.ids = acc.ids],
                    Append(acc.events, "commit"), FALSE)

RejectDoubleBooking(r, client, env) ==
    LET d == ParseDate(r.date_reject)
        t == ParseTime(r.time_reject)
        acc == RejectLoop(r.specialists_list, client, d, t, env,
                          [rows |-> bookings, avail |-> sheetAvail,
                           reserved |-> sheetReserved, ids |-> <<>>,
                           events |-> <<>>])
    IN IF Len(r.specialists_list) < 2
       THEN Fail("not_enough_specialists", <<>>)
       ELSE IF d = NoDate \/ t = NoTime THEN Fail("bad_date_or_time", <<>>)
       ELSE IF env.db # "ok"
       THEN Outcome(bookings, acc.avail, acc.reserved,
                    [NoResult EXCEPT !.message = "cancel_error"],
                    Append(acc.events, "commit"), FALSE)
       ELSE IF acc.ids = <<>>
       THEN Fail("not_found", <<"commit">>)
       ELSE Outcome(acc.rows, acc.avail, acc.reserved,
                    [NoResult EXCEPT !.success = TRUE, !.message = "cancelled",
                                     !.ids = acc.ids],
                    Append(acc.events, "commit"), FALSE)

RejectBooking(r, client, env) ==
    IF r.double /\ r.specialists_list # <<>>
    THEN RejectDoubleBooking(r, client, env)
    ELSE RejectSingleBooking(r, client, env)

\* ------------------------------------------------ local availability check
\* a faulty check: the store is not consulted
IsSlotAvailableAlways(rows, specialist, d, t, n, exclude) == TRUE

\* _is_slot_available: no active row of the specialist and date, other than
\* exclude, has a unit slot starting at one of the candidate's slot starts
IsSlotAvailable(rows, specialist, d, t, n, exclude) ==
    LET occupied == Range(SlotTimes(t, n))
        existing == {i \in DOMAIN rows :
                        /\ rows[i].project = ProjectId
                        /\ rows[i].specialist = specialist
                        /\ rows[i].date = d
                        /\ Active(rows[i])
                        /\ i # exclude}
    IN \A i \in existing :
          \A k \in 1..(rows[i].duration \div SlotMinutes) :
             SlotTime(rows[i].time, k - 1) \notin occupied

\* ------------------------------------------------------- bulk transfer
\* a faulty loop: the first booking whose new slot is occupied ends it
RECURSIVE TransferLoopStopAtFirst(_, _, _, _)
TransferLoopStopAtFirst(ids, new_date, env, acc) ==
    IF ids = <<>> THEN acc
    ELSE
      LET i == Head(ids)
          b == acc.rows[i]
          n == b.duration \div SlotMinutes
      IN IF \E j \in DOMAIN acc.rows \ {i} :
               /\ acc.rows[j].project = ProjectId
               /\ acc.rows[j].specialist = b.specialist
               /\ acc.rows[j].date = new_date
               /\ acc.rows[j].status = "active"
               /\ acc.rows[j].time < b.time + b.duration
               /\ b.time < acc.rows[j].time + acc.rows[j].duration
         THEN [acc EXCEPT !.failed = @ + Len(ids)]
         ELSE TransferLoopStopAtFirst(Tail(ids), new_date, env,
                [acc EXCEPT !.rows = [acc.rows EXCEPT ![i].date = new_date],
                            !.ids = Append(acc.ids, i)])

RECURSIVE TransferLoop(_, _, _, _)
TransferLoop(ids, new_date, env, acc) ==
    IF ids = <<>> THEN acc
    ELSE
      LET i == Head(ids)
          b == acc.rows[i]
          n == b.duration \div SlotMinutes
          cleared == env.clear = "ok"
      IN IF ~IsSlotAvailable(acc.rows, b.specialist, new_date, b.time, n, i)
         THEN TransferLoop(Tail(ids), new_date, env,
                           [acc EXCEPT !.failed = @ + 1])
         ELSE TransferLoop(Tail(ids), new_date, env,
                [rows |-> [acc.rows EXCEPT ![i].date = new_date],
                 avail |-> IF cleared
                           THEN ClearAvail(acc.avail, b.specialist, b.date,
                                           b.time, n)
                           ELSE acc.avail,
                 reserved |-> IF cleared
                              THEN ClearReserved(acc.reserved, b.specialist,
                                                 b.date, b.time, n)
                              ELSE acc.reserved,
                 ids |-> Append(acc.ids, i),
                 failed |-> acc.failed,
                 events |-> Append(acc.events, "clear_slot")])

\* faulty sheet updates: the first one that fails ends the loop
RECURSIVE SyncUntilFailure(_, _, _, _, _)
SyncUntilFailure(ids, k, rows, env, sheet) ==
    IF ids = <<>> \/ SyncAt(env, k) # "ok" THEN sheet
    ELSE SyncUntilFailure(Tail(ids), k + 1, rows, env,
           [avail |-> ReserveAvail(sheet.avail, rows[Head(ids)]),
            reserved |-> ReserveReserved(sheet.reserved, rows[Head(ids)])])

\* the sheet updates after the commit, each in its own try
RECURSIVE SyncMoved(_, _, _, _, _)
SyncMoved(ids, k, rows, env, sheet) ==
    IF ids = <<>> THEN sheet
    ELSE SyncMoved(Tail(ids), k + 1, rows, env,
           IF SyncAt(env, k) = "ok"
           THEN [avail |-> ReserveAvail(sheet.avail, rows[Head(ids)]),
                 reserved |-> ReserveReserved(sheet.reserved, rows[Head(ids)])]
           ELSE sheet)

\* a set of row ids as the list Query.all() returns
RECURSIVE Ascending(_)
Ascending(S) ==
    IF S = {} THEN <<>> ELSE <<Lowest(S)>> \o Ascending(S \ {Lowest(S)})
RECURSIVE Descending(_)
Descending(S) ==
    IF S = {} THEN <<>> ELSE <<Highest(S)>> \o Descending(S \ {Highest(S)})
\* a faulty listing: only one of the matching rows is returned
AllFirstOnly(S, pick) == <<Lowest(S)>>
All(S, pick) == IF pick = "lo" THEN Ascending(S) ELSE Descending(S)

Repeat(x, n) == [i \in 1..n |-> x]

TransferMultipleBookings(all, new_date, r, client, env) ==
    LET acc == TransferLoop(all, new_date, env,
                            [rows |-> bookings, avail |-> sheetAvail,
                             reserved |-> sheetReserved, ids |-> <<>>,
                             failed |-> 0, events |-> <<>>])
        sheet == SyncMoved(acc.ids, 1, acc.rows, env,
                           [avail |-> acc.avail, reserved |-> acc.reserved])
    IN IF acc.ids = <<>>
       THEN Outcome(bookings, sheetAvail, sheetReserved,
                    [NoResult EXCEPT !.message = "none_transferred",
                                     !.failed = acc.failed],
                    <<>>, FALSE)
       ELSE IF env.db # "ok"
       THEN Outcome(bookings, acc.avail, acc.reserved,
                    [NoResult EXCEPT !.message =
                        IF env.db = "down" THEN "change_error"
                        ELSE "transfer_error"],
                    acc.events \o <<"commit", "rollback">>, FALSE)
       ELSE Outcome(acc.rows, sheet.avail, sheet.reserved,
                    [NoResult EXCEPT !.success = TRUE,
                                     !.message = "transferred",
                                     !.ids = acc.ids, !.failed = acc.failed],
                    acc.events \o <<"commit">>
                      \o Repeat("update_slot", Len(acc.ids))
                      \o Repeat("log_transfer", Len(acc.ids)),
                    FALSE)

\* ------------------------------------------------------- single reschedule
ChangeSingleBooking(r, client, env) ==
    LET old_date == ParseDate(r.date_reject)
        new_date == ParseDate(r.date_order)
        all == {i \in Ids : /\ bookings[i].project = ProjectId
                            /\ bookings[i].client = client
                            /\ bookings[i].date = old_date
                            /\ Active(bookings[i])}
        old_time == ParseTime(r.time_reject)
        new_time == ParseTime(r.time_set_up)
        m == MatchRows(bookings, client, r.cosmetolog, old_date, old_time)
    IN IF old_date = NoDate \/ new_date = NoDate THEN Fail("bad_date", <<>>)
       ELSE IF Cardinality(all) > 1
       THEN TransferMultipleBookings(All(all, env.pick), new_date, r, client,
                                     env)
       ELSE IF old_time = NoTime \/ new_time = NoTime
       THEN Fail("bad_time", <<>>)
       ELSE IF m = {} THEN Fail("not_found", <<>>)
       ELSE
         LET i == First(m, env.pick)
             b == bookings[i]
             n == b.duration \div SlotMinutes
             cleared == env.clear = "ok"
             av1 == IF cleared
                    THEN ClearAvail(sheetAvail, b.specialist, b.date, b.time, n)
                    ELSE sheetAvail
             rs1 == IF cleared
                    THEN ClearReserved(sheetReserved, b.specialist, b.date,
                                       b.time, n)
                    ELSE sheetReserved
             nb == [b EXCEPT !.specialist = r.cosmetolog, !.date = new_date,
                             !.time = new_time,
                             !.service = IF Missing(r.procedure) THEN @
                                         ELSE r.procedure]
             rows == [bookings EXCEPT ![i] = nb]
         IN IF ~IsSlotAvailable(bookings, r.cosmetolog, new_date, new_time,
                                n, i)
            THEN Fail("new_time_taken", <<>>)
            ELSE IF env.db # "ok"
            THEN Outcome(bookings, av1, rs1,
                         [NoResult EXCEPT !.message = "change_error"],
                         <<"clear_slot", "commit">>, FALSE)
            ELSE IF SyncAt(env, 1) = "raise"
            THEN Outcome(rows, av1, rs1,
                         [NoResult EXCEPT !.message = "change_error"],
                         <<"clear_slot", "commit", "update_slot">>, FALSE)
            ELSE Outcome(rows,
                         IF SyncAt(env, 1) = "ok" THEN ReserveAvail(av1, nb)
                         ELSE av1,
                         IF SyncAt(env, 1) = "ok" THEN ReserveReserved(rs1, nb)
                         ELSE rs1,
                         [NoResult EXCEPT !.success = TRUE,
                                          !.message = "changed",
                                          !.ids = <<i>>],
                         <<"clear_slot", "commit", "update_slot",
                           "log_transfer">>, FALSE)

\* ------------------------------------------------------- double reschedule
\* the rows updated for the new specialists, after the commit: the sheet
\* updates are not guarded, the first one that raises ends the handler
RECURSIVE SyncChanged(_, _, _, _, _)
SyncChanged(ids, k, rows, env, sheet) ==
    IF ids = <<>> \/ SyncAt(env, k) = "raise" THEN sheet
    ELSE SyncChanged(Tail(ids), k + 1, rows, env,
           IF SyncAt(env, k) = "ok"
           THEN [avail |-> ReserveAvail(sheet.avail, rows[Head(ids)]),
                 reserved |-> ReserveReserved(sheet.reserved, rows[Head(ids)])]
           ELSE sheet)

RECURSIVE ClearOld(_, _, _, _)
ClearOld(ids, rows, env, sheet) ==
    IF ids = <<>> \/ env.clear # "ok" THEN sheet
    ELSE LET b == rows[Head(ids)]
             n == b.duration \div SlotMinutes
         IN ClearOld(Tail(ids), rows, env,
              [avail |-> ClearAvail(sheet.avail, b.specialist, b.date, b.time,
                                    n),
               reserved |-> ClearReserved(sheet.reserved, b.specialist, b.date,
                                          b.time, n)])

\* sorted(old_bookings, key=created_at, reverse=True)[:2]; rows are created in
\* id order
MostRecentTwo(S) == SubSeq(Descending(S), 1, 2)

ChangeDoubleBooking(r, client, env) ==
    LET list == r.specialists_list
        old == {i \in Ids : /\ bookings[i].project = ProjectId
                            /\ bookings[i].client = client
                            /\ Active(bookings[i])}
        new_date == ParseDate(r.date_order)
        new_time == ParseTime(r.time_set_up)
        occupied == SelectSeq(SubSeq(list, 1, 2),
                      LAMBDA s : ~IsSlotAvailableInSheets(s, new_date, new_time))
        ids == MostRecentTwo(old)
        cleared == ClearOld(ids, bookings, env,
                            [avail |-> sheetAvail, reserved |-> sheetReserved])
        rows == [i \in Ids |->
                   IF \E k \in 1..2 : ids[k] = i
                   THEN LET k == CHOOSE k \in 1..2 : ids[k] = i
                        IN [bookings[i] EXCEPT
                              !.specialist = list[k], !.date = new_date,
                              !.time = new_time,
                              !.service = IF Missing(r.procedure) THEN @
                                          ELSE r.procedure]
                   ELSE bookings[i]]
        synced == SyncChanged(ids, 1, rows, env, cleared)
        checks == <<"is_slot_available", "is_slot_available">>
        clears == Repeat("clear_slot", 2)
    IN IF Len(list) < 2 THEN Fail("not_enough_specialists", <<>>)
       ELSE IF old = {} THEN Fail("no_active_bookings", <<>>)
       ELSE IF new_date = NoDate \/ new_time = NoTime
       THEN Fail("bad_date_or_time", <<>>)
       ELSE IF env.feed_read = "raise"
       THEN Fail("change_error", <<"is_slot_available">>)
       ELSE IF occupied # <<>>
       THEN Outcome(bookings, sheetAvail, sheetReserved,
                    [NoResult EXCEPT !.message = "new_time_taken",
                                     !.names = occupied],
                    checks, FALSE)
       ELSE IF Cardinality(old) < 2
       THEN Fail("not_enough_bookings", checks)
       ELSE IF env.db # "ok"
       THEN Outcome(bookings, cleared.avail, cleared.reserved,
                    [NoResult EXCEPT !.message = "change_error"],
                    checks \o clears \o <<"commit">>, FALSE)
       ELSE IF SyncAt(env, 1) = "raise" \/ SyncAt(env, 2) = "raise"
       THEN Outcome(rows, synced.avail, synced.reserved,
                    [NoResult EXCEPT !.message = "change_error"],
                    checks \o clears \o <<"commit", "update_slot">>, FALSE)
       ELSE Outcome(rows, synced.avail, synced.reserved,
                    [NoResult EXCEPT !.success = TRUE, !.message = "changed",
                                     !.ids = ids],
                    checks \o clears
                      \o <<"commit", "update_slot", "update_slot",
                           "log_transfer", "log_transfer">>,
                    FALSE)

ChangeBooking(r, client, env) ==
    IF r.double /\ r.specialists_list # <<>>
    THEN ChangeDoubleBooking(r, client, env)
    ELSE ChangeSingleBooking(r, client, env)

\* ------------------------------------------------------- double create
\* a dict in insertion order: a sequence of <<key, value>> pairs
DictHas(dct, k) == \E i \in DOMAIN dct : dct[i][1] = k
DictPut(dct, k, v) ==
    IF DictHas(dct, k)
    THEN [i \in DOMAIN dct |-> IF dct[i][1] = k THEN <<k, v>> ELSE dct[i]]
    ELSE Append(dct, <<k, v>>)

\* _parse_specialist_times_from_response: every "<time> <Name>" mention whose
\* name matches a listed specialist and whose time parses sets that
\* specialist's time
RECURSIVE ParseSpecialistTimes(_, _)
ParseSpecialistTimes(mentions, list) ==
    IF mentions = <<>> THEN <<>>
    ELSE LET done == ParseSpecialistTimes(SubSeq(mentions, 1, Len(mentions) - 1),
                                          list)
             x == mentions[Len(mentions)]
         IN IF x[1] \in Range(list) /\ ParseTime(x[2]) # NoTime
            THEN DictPut(done, x[1], ParseTime(x[2]))
            ELSE done

\* the fallback: the base time for the first specialist, +3 hours for the second
FallbackTimes(list, base) ==
    DictPut(DictPut(<<>>, list[1], base), list[2],
            (base + FallbackOffsetMinutes) % MinutesPerDay)

\* a faulty per-specialist check: only the first specialist is looked up
SpecialistOccupiedFirstOnly(specialist, d, t) ==
    /\ specialist = "Olga"
    /\ \/ FormatHM(t) \notin SnapshotAvailable(specialist, d)
       \/ FormatHM(t) \in SnapshotReserved(specialist, d)

\* the per-specialist check of the double create: only the requested start
\* label is looked up
SpecialistOccupied(specialist, d, t) ==
    \/ FormatHM(t) \notin SnapshotAvailable(specialist, d)
    \/ FormatHM(t) \in SnapshotReserved(specialist, d)

\* _parse_specialist_procedures_from_response: the first "<Name> <procedure>"
\* mention of a listed specialist sets that specialist's procedure
RECURSIVE ParseSpecialistProcedures(_, _)
ParseSpecialistProcedures(mentions, list) ==
    IF mentions = <<>> THEN <<>>
    ELSE LET done == ParseSpecialistProcedures(
                        SubSeq(mentions, 1, Len(mentions) - 1), list)
             x == mentions[Len(mentions)]
         IN IF x[1] \in Range(list) /\ ~DictHas(done, x[1])
            THEN Append(done, <<x[1], x[2]>>)
            ELSE done
DictGet(dct, k) == dct[CHOOSE i \in DOMAIN dct : dct[i][1] = k][2]

\* the combined procedure names the double create tries to split: the ones
\* holding a '+' or one of its two keywords
Combined(p) == p \in {"massage", "massage+peeling"}
\* _split_combined_procedure for a list of two: the parts around the
\* separator, or the single name and a numbered variant of it
SplitCombinedProcedure(p) ==
    IF p = "massage+peeling" THEN <<"massage", "peeling">>
    ELSE <<"massage", "massage (2)">>
\* "Процедура для <specialist>"
ProcedureFor(specialist) ==
    CASE specialist = "Olga" -> "procedure for Olga"
      [] specialist = "Anna" -> "procedure for Anna"
      [] OTHER -> "procedure for"

\* the service written to the i-th row of a double booking
SpecialistProcedure(r, specialist, i) ==
    LET parsed == ParseSpecialistProcedures(r.gpt_procedures,
                                            r.specialists_list)
    IN IF DictHas(parsed, specialist) THEN DictGet(parsed, specialist)
       ELSE IF ~Missing(r.procedure) /\ Combined(r.procedure)
       THEN SplitCombinedProcedure(r.procedure)[i]
       ELSE ProcedureFor(specialist)

RECURSIVE DoubleRows(_, _, _, _, _, _)
DoubleRows(times, i, rows, r, client, d) ==
    IF times = <<>> THEN rows
    ELSE DoubleRows(Tail(times), i + 1,
                    Append(rows,
                           NewBooking(rows, client, Head(times)[1], d,
                                      Head(times)[2], DoubleDurationMinutes,
                                      SpecialistProcedure(r, Head(times)[1],
                                                          i))),
                    r, client, d)

ActivateDoubleBooking(r, client, env) ==
    LET list == r.specialists_list
        parsed == ParseSpecialistTimes(r.gpt_times, list)
        base == ParseTime(r.time_set_up)
        fallback == Len(parsed) # Len(list)
        times == IF fallback THEN FallbackTimes(list, base) ELSE parsed
        d == ParseDate(r.date_order)
        occupied == SelectSeq(times,
                      LAMBDA p : SpecialistOccupied(p[1], d, p[2]))
        rows == DoubleRows(times, 1, bookings, r, client, d)
        ids == [k \in 1..Len(times) |-> Len(bookings) + k]
        sheet == SyncMoved(ids, 1, rows, env,
                           [avail |-> sheetAvail, reserved |-> sheetReserved])
        reads == Repeat("get_available_slots", Len(times))
    IN IF Len(list) < 2 THEN Fail("not_enough_specialists", <<>>)
       ELSE IF MissingDate(r.date_order) \/ MissingTime(r.time_set_up)
       THEN Fail("missing_fields", <<>>)
       ELSE IF fallback /\ base = NoTime THEN Fail("bad_time", <<>>)
       ELSE IF d = NoDate THEN Fail("bad_date", <<>>)
       ELSE IF \E k \in DOMAIN list : list[k] \notin Specialists
       THEN Fail("unknown_specialist", <<>>)
       ELSE IF env.feed_read = "raise"
       THEN Fail("check_error", <<"get_available_slots">>)
       ELSE IF occupied # <<>>
       THEN Outcome(bookings, sheetAvail, sheetReserved,
                    [NoResult EXCEPT !.message = "slot_unavailable",
                                     !.names = [k \in DOMAIN occupied |->
                                                  occupied[k][1]]],
                    reads, FALSE)
       ELSE IF env.db = "fail"
       THEN Fail("create_error", reads \o <<"commit", "rollback">>)
       ELSE IF env.db = "down"
       THEN Outcome(bookings, sheetAvail, sheetReserved, NoResult,
                    reads \o <<"commit", "rollback">>, TRUE)
       ELSE Outcome(rows, sheet.avail, sheet.reserved,
                    [NoResult EXCEPT !.success = TRUE, !.message = "created",
                                     !.ids = ids],
                    reads \o <<"commit">>
                      \o Repeat("update_slot", Len(times)) \o <<"make_table">>,
                    FALSE)

\* a faulty create: the row is inserted before any field is validated
ActivateBookingUnvalidated(r, client, env) ==
    LET b == NewBooking(bookings, client, r.cosmetolog,
                        ParseDateCreate(r.date_order), ParseTime(r.time_set_up),
                        SlotMinutes, r.procedure)
    IN IF ~Missing(r.cosmetolog) /\ ParseDateCreate(r.date_order) # NoDate
          /\ ParseTime(r.time_set_up) # NoTime /\ r.cosmetolog \in Specialists
       THEN AfterCreate(b, Append(bookings, b), env)
       ELSE Outcome(Append(bookings, b), sheetAvail, sheetReserved,
                    [NoResult EXCEPT !.message = "bad_date"], <<"commit">>,
                    FALSE)

\* _activate_booking; its first branch hands a double intent over to the
\* double create, whose raise its own except clause turns into a failure
ActivateBooking(r, client, env) ==
    IF r.double /\ r.specialists_list # <<>>
    THEN (IF Len(r.specialists_list) < 2 \/ MissingDate(r.date_order)
             \/ MissingTime(r.time_set_up)
          THEN Fail("missing_fields", <<>>)
          ELSE IF ActivateDoubleBooking(r, client, env).raised
          THEN Fail("create_error", <<"commit", "rollback">>)
          ELSE ActivateDoubleBooking(r, client, env))
    ELSE IF Missing(r.cosmetolog) \/ MissingDate(r.date_order)
       \/ MissingTime(r.time_set_up)
    THEN Fail("missing_fields", <<>>)
    ELSE IF ParseDateCreate(r.date_order) = NoDate
    THEN Fail("bad_date", <<>>)
    ELSE IF ParseTime(r.time_set_up) = NoTime
    THEN Fail("bad_time", <<>>)
    ELSE IF r.cosmetolog \notin Specialists
    THEN Fail("unknown_specialist", <<>>)
    ELSE
      LET d == ParseDateCreate(r.date_order)
          t == ParseTime(r.time_set_up)
          n == DurationSlots(r, env)
          bad == SlotCheck(SlotLabels(t, n),
                           SnapshotAvailable(r.cosmetolog, d),
                           SnapshotReserved(r.cosmetolog, d))
          b == NewBooking(bookings, client, r.cosmetolog, d, t,
                          n * SlotMinutes, NormalizedService(r, env))
      IN IF env.feed_read = "raise"
         THEN Fail("check_error", <<"get_available_slots">>)
         ELSE IF bad # <<>>
         THEN Outcome(bookings, sheetAvail, sheetReserved,
                      [NoResult EXCEPT !.message = "slot_unavailable",
                                       !.slots = bad],
                      <<"get_available_slots">>, FALSE)
         ELSE IF env.db # "ok"
         THEN Fail("create_error", <<"get_available_slots", "commit">>)
         ELSE AfterCreate(b, Append(bookings, b), env)

\* --------------------------------------------------------------- fetch
\* the BookingRecord built from a row
BookingRecord(b) ==
    [id |-> b.id, project_id |-> b.project, specialist_name |-> b.specialist,
     date |-> b.date, time |-> b.time, client_id |-> b.client,
     service_name |-> b.service,
     duration_slots |-> b.duration \div SlotMinutes, status |-> b.status]

\* a faulty fetch: the rows that are not active are returned
GetClientBookingsInactive(rows, client) ==
    {BookingRecord(rows[i]) : i \in {j \in DOMAIN rows :
        /\ rows[j].project = ProjectId
        /\ rows[j].client = client
        /\ ~Active(rows[j])}}

\* get_client_bookings: the active rows of the client in this tenant
GetClientBookings(rows, client) ==
    {BookingRecord(rows[i]) : i \in {j \in DOMAIN rows :
        /\ rows[j].project = ProjectId
        /\ rows[j].client = client
        /\ Active(rows[j])}}

\* ------------------------------------------------------------- dispatcher
\* a faulty routing: the cancel flag is looked at before the create flag
RouteRejectFirst(r) ==
    IF r.reject THEN "_reject_booking"
    ELSE IF r.activate
    THEN (IF r.double /\ r.specialists_list # <<>>
          THEN "_activate_double_booking" ELSE "_activate_booking")
    ELSE IF r.change THEN "_change_booking"
    ELSE "none"

\* process_booking_action: which handler the flags select
Route(r) ==
    IF r.activate
    THEN (IF r.double /\ r.specialists_list # <<>>
          THEN "_activate_double_booking" ELSE "_activate_booking")
    ELSE IF r.reject THEN "_reject_booking"
    ELSE IF r.change THEN "_change_booking"
    ELSE "none"

ActionName(r) ==
    IF r.activate THEN "activate"
    ELSE IF r.reject THEN "reject"
    ELSE IF r.change THEN "change"
    ELSE "none"

NoAction ==
    Outcome(bookings, sheetAvail, sheetReserved,
            [NoResult EXCEPT !.success = TRUE, !.message = "no_action"],
            <<>>, FALSE)

\* the outcome of the handler the flags select
Handle(r, client, env) ==
    CASE Route(r) = "_activate_double_booking" ->
            ActivateDoubleBooking(r, client, env)
      [] Route(r) = "_activate_booking" -> ActivateBooking(r, client, env)
      [] Route(r) = "_reject_booking" -> RejectBooking(r, client, env)
      [] Route(r) = "_change_booking" -> ChangeBooking(r, client, env)
      [] OTHER -> NoAction

\* the handlers called: the one the dispatcher selects and, for cancel and
\* reschedule, the variant that handler routes to
IsDouble(r) == r.double /\ r.specialists_list # <<>>
Handlers(r) ==
    CASE Route(r) = "_reject_booking" ->
            <<"_reject_booking",
              IF IsDouble(r) THEN "_reject_double_booking"
              ELSE "_reject_single_booking">>
      [] Route(r) = "_change_booking" ->
            <<"_change_booking",
              IF IsDouble(r) THEN "_change_double_booking"
              ELSE "_change_single_booking">>
      [] Route(r) = "none" -> <<>>
      [] OTHER -> <<Route(r)>>

\* a faulty dispatcher: no except clause, the handler's raise is not turned
\* into an error result
DispatchUncaught(r, o) == [o.result EXCEPT !.action = ActionName(r)]

\* the try/except of process_booking_action around the handler outcome o
Dispatch(r, o) ==
    IF o.raised
    THEN [NoResult EXCEPT !.action = "error", !.message = "error"]
    ELSE [o.result EXCEPT !.action = ActionName(r)]

\* one call of process_booking_action(r, client) in environment env
ProcessBookingAction(r, client, env) ==
    \E o \in {Handle(r, client, env)} :
       /\ nOps' = nOps + 1
       /\ bookings' = o.rows
       /\ sheetAvail' = o.avail
       /\ sheetReserved' = o.reserved
       /\ last' = [request |-> r, client |-> client, env |-> env,
                   result |-> Dispatch(r, o), handlers |-> Handlers(r),
                   events |-> o.events]
       /\ UNCHANGED <<inflight, parse, unit, switcher>>

\* ------------------------------------------------------------------ inputs
D1 == DateStr("dmy", 5, 3, 2025)
D2 == DateStr("dm", 6, 3, 0)
D3 == DateStr("dmy", 7, 3, 2025)
BadDate == DateStr("iso", 5, 3, 2025)
T1 == TimeStr("colon", 11, 0)
T2 == TimeStr("colon", 11, 30)
BadTime == TimeStr("dot", 11, 30)

\* the environment of one call: what the services the handler calls do
EnvOk ==
    [feed_read |-> "ok", normalize |-> "massage", db |-> "ok", sync |-> <<>>,
     clear |-> "ok", pick |-> "lo"]
CreateEnvs ==
    {EnvOk, [EnvOk EXCEPT !.feed_read = "raise"],
     [EnvOk EXCEPT !.normalize = "raise"], [EnvOk EXCEPT !.db = "fail"],
     [EnvOk EXCEPT !.db = "down"], [EnvOk EXCEPT !.sync = <<"false">>],
     [EnvOk EXCEPT !.sync = <<"ok", "raise">>],
     [EnvOk EXCEPT !.normalize = "other"],
     [EnvOk EXCEPT !.sync = <<"raise">>]}
RejectEnvs ==
    {EnvOk, [EnvOk EXCEPT !.db = "fail"], [EnvOk EXCEPT !.clear = "raise"],
     [EnvOk EXCEPT !.pick = "hi"]}
ChangeEnvs ==
    {EnvOk, [EnvOk EXCEPT !.feed_read = "raise"], [EnvOk EXCEPT !.db = "fail"],
     [EnvOk EXCEPT !.db = "down"], [EnvOk EXCEPT !.sync = <<"false">>],
     [EnvOk EXCEPT !.sync = <<"raise">>], [EnvOk EXCEPT !.clear = "raise"],
     [EnvOk EXCEPT !.pick = "hi"]}

Create(s, d, t, p) ==
    [BaseIntent EXCEPT !.activate = TRUE, !.cosmetolog = s, !.date_order = d,
                       !.time_set_up = t, !.procedure = p]
CreateDouble(list, d, t, mentions) ==
    [BaseIntent EXCEPT !.activate = TRUE, !.double = TRUE,
                       !.specialists_list = list, !.date_order = d,
                       !.time_set_up = t, !.procedure = "massage",
                       !.gpt_times = mentions]
Cancel(s, d, t) ==
    [BaseIntent EXCEPT !.reject = TRUE, !.cosmetolog = s, !.date_reject = d,
                       !.time_reject = t]
CancelDouble(list, d, t) ==
    [BaseIntent EXCEPT !.reject = TRUE, !.double = TRUE,
                       !.specialists_list = list, !.date_reject = d,
                       !.time_reject = t]
Move(s, d, t, nd, nt) ==
    [BaseIntent EXCEPT !.change = TRUE, !.cosmetolog = s, !.date_reject = d,
                       !.time_reject = t, !.date_order = nd, !.time_set_up = nt]
MoveDouble(list, nd, nt) ==
    [BaseIntent EXCEPT !.change = TRUE, !.double = TRUE,
                       !.specialists_list = list, !.date_order = nd,
                       !.time_set_up = nt]

ActivateSingleIntents ==
    {Create("Olga", D1, T1, "massage"), Create("Olga", D1, T2, "peeling"),
     Create("Anna", D1, T1, "lifting"), Create("Anna", D2, T1, NoneStr),
     Create("Olga", D3, T1, "peeling"), Create("Zoya", D1, T1, "massage"),
     Create("Olga", BadDate, T1, "massage"),
     Create("Olga", D1, BadTime, "massage"),
     Create(NoneStr, D1, T1, "massage"),
     Create("Olga", D1, NoTimeStr, "massage"),
     [Create("Olga", D1, T1, "peeling") EXCEPT !.double = TRUE],
     [Create("Olga", D1, T1, "peeling") EXCEPT
         !.reject = TRUE, !.change = TRUE, !.date_reject = D1,
         !.time_reject = T1]}
ActivateDoubleIntents ==
    {CreateDouble(<<"Olga", "Anna">>, D1, T1, <<>>),
     CreateDouble(<<"Olga", "Anna">>, D1, T1,
                  <<<<"Olga", T1>>, <<"Anna", T1>>>>),
     CreateDouble(<<"Olga", "Olga">>, D1, T1, <<>>),
     CreateDouble(<<"Olga", "Zoya">>, D1, T1, <<>>),
     CreateDouble(<<"Olga">>, D1, T1, <<>>),
     CreateDouble(<<"Olga", "Anna">>, D1, BadTime, <<>>),
     CreateDouble(<<"Olga", "Anna">>, BadDate, T1, <<>>),
     CreateDouble(<<"Olga", "Anna">>, NoDateStr, T1, <<>>),
     CreateDouble(<<"Olga", "Anna">>, D1, BadTime,
                  <<<<"Olga", T1>>, <<"Anna", T1>>>>),
     [CreateDouble(<<"Olga", "Anna">>, D1, T1, <<>>) EXCEPT
         !.procedure = "massage+peeling", !.times_set_up_list = <<T1, T2>>,
         !.procedures_list = <<"massage", "peeling">>],
     [CreateDouble(<<"Olga", "Anna">>, D1, T1,
                   <<<<"Olga", T1>>, <<"Anna", T2>>>>) EXCEPT
         !.gpt_procedures = <<<<"Olga", "massage">>, <<"Anna", "peeling">>>>,
         !.times_set_up_list = <<T1, T2>>,
         !.procedures_list = <<"massage", "peeling">>]}
RejectIntents ==
    {Cancel("Olga", D1, T1), Cancel("Anna", D1, T1), Cancel(NoneStr, D1, T1),
     Cancel("Olga", BadDate, T1),
     CancelDouble(<<"Olga", "Anna">>, D1, T1),
     CancelDouble(<<"Olga", "Anna">>, D1, NoTimeStr),
     [Cancel("Olga", D1, T1) EXCEPT !.change = TRUE, !.date_order = D2,
                                    !.time_set_up = T1]}
ChangeIntents ==
    {Move("Olga", D1, T1, D1, T2), Move("Olga", D1, T1, D2, T1),
     Move("Olga", D1, T2, D2, T2), Move("Anna", D1, T1, D2, T1),
     Move("Olga", D1, T1, BadDate, T1),
     MoveDouble(<<"Olga", "Anna">>, D2, T2),
     MoveDouble(<<"Olga", "Anna">>, D2, T1),
     MoveDouble(<<"Anna">>, D2, T2),
     Move(NoneStr, D1, NoTimeStr, D2, NoTimeStr)}
NoActionIntents ==
    {BaseIntent,
     [BaseIntent EXCEPT !.double = TRUE,
                        !.specialists_list = <<"Olga", "Anna">>,
                        !.cosmetolog = "Olga", !.date_order = D1,
                        !.time_set_up = T1]}

\* ------------------------------------------------------------------- calls
\* the calls explored: every intent by the first client in a healthy
\* environment, the main intents of the first client under each fault, and the
\* main intents by the second client
MainCreates ==
    {Create("Olga", D1, T1, "massage"), Create("Anna", D1, T1, "lifting")}
MainDoubleCreates ==
    {CreateDouble(<<"Olga", "Anna">>, D1, T1,
                  <<<<"Olga", T1>>, <<"Anna", T1>>>>)}
MainCancels ==
    {Cancel("Olga", D1, T1), CancelDouble(<<"Olga", "Anna">>, D1, T1)}
MainMoves ==
    {Move("Olga", D1, T1, D2, T1), Move("Olga", D1, T1, D1, T2),
     MoveDouble(<<"Olga", "Anna">>, D2, T2)}

Calls(intents, main, envs) ==
    (intents \X {"c1"} \X {EnvOk})
    \cup (main \X {"c1"} \X envs)
    \cup (main \X {"c2"} \X {EnvOk})

ActivateSingleCalls == Calls(ActivateSingleIntents, MainCreates, CreateEnvs)
ActivateDoubleCalls ==
    Calls(ActivateDoubleIntents, MainDoubleCreates, CreateEnvs)
RejectCalls == Calls(RejectIntents, MainCancels, RejectEnvs)
ChangeCalls == Calls(ChangeIntents, MainMoves, ChangeEnvs)
NoActionCalls == Calls(NoActionIntents, {BaseIntent}, {EnvOk})

\* ----------------------------------------------------------------- actions
ActivateSingle ==
    /\ nOps < MaxOps
    /\ \E x \in ActivateSingleCalls : ProcessBookingAction(x[1], x[2], x[3])

ActivateDouble ==
    /\ nOps < MaxOps
    /\ \E x \in ActivateDoubleCalls : ProcessBookingAction(x[1], x[2], x[3])

Reject ==
    /\ nOps < MaxOps
    /\ \E x \in RejectCalls : ProcessBookingAction(x[1], x[2], x[3])

Change ==
    /\ nOps < MaxOps
    /\ \E x \in ChangeCalls : ProcessBookingAction(x[1], x[2], x[3])

NoBookingAction ==
    /\ nOps < MaxOps
    /\ \E x \in NoActionCalls : ProcessBookingAction(x[1], x[2], x[3])

\* ------------------------------------------------------------ specification
DA == MkDate(5, 3, 2025)
DB == MkDate(6, 3, 2025)

\* the sheet at start: both specialists free on the first day, one slot of
\* Olga already reserved on the second day, nothing listed for later days
InitAvail ==
    {<<k, DA, FormatHM(t)>> : k \in {"olga", "anna"}, t \in {660, 690, 720, 840}}
    \cup {<<"olga", DB, FormatHM(t)>> : t \in {690, 720}}
    \cup {<<"anna", DB, FormatHM(t)>> : t \in {660, 690, 720}}
InitReserved == {<<"olga", DB, FormatHM(660)>>}

NoCall ==
    [request |-> BaseIntent, client |-> "c1", env |-> EnvOk,
     result |-> NoResult, handlers |-> <<>>, events |-> <<>>]
NoParse == [input |-> NoDateStr, done |-> FALSE, output |-> NoDate]
NoProbe ==
    [specialist |-> NoneStr, date |-> NoDate, time |-> NoTimeStr,
     duration_slots |-> 0, exclude |-> 0, done |-> FALSE, output |-> TRUE]
NoSplit ==
    [pc |-> "idle", specialists |-> 0, is_str |-> TRUE, pattern |-> 0,
     parts |-> <<>>, out |-> <<>>]
NoSwitch ==
    [call |-> "none", provider |-> NoneStr, success |-> FALSE,
     old_provider |-> NoneStr, new_provider |-> NoneStr]
\* no helper call is followed on its own
UnitIdle == probe = NoProbe /\ split = NoSplit
\* provider_switcher as imported: the default provider, no history
SwitcherInit ==
    /\ current_provider = "claude"
    /\ provider_history = <<>>
    /\ switch_result = NoSwitch

\* a booking another tenant keeps in the same table, for a client with the
\* same id and the same specialist name
OtherTenantRow ==
    [id |-> 1, project |-> "p2", client |-> "c1", specialist |-> "Olga",
     date |-> DA, time |-> 660, duration |-> 2 * SlotMinutes,
     service |-> "massage", status |-> "active"]

\* requests are handled one at a time, each to its end; the table is empty or
\* holds the booking of the other tenant
Init ==
    /\ bookings \in {<<>>, <<OtherTenantRow>>}
    /\ sheetAvail = InitAvail
    /\ sheetReserved = InitReserved
    /\ last = NoCall
    /\ nOps = 0
    /\ inflight = <<>>
    /\ parse = NoParse
    /\ UnitIdle
    /\ SwitcherInit

Next ==
    \/ ActivateSingle
    \/ ActivateDouble
    \/ Reject
    \/ Change
    \/ NoBookingAction

Spec == Init /\ [][Next]_vars

\* ------------------------------------------------- concurrent creates
\* Two _activate_booking coroutines in flight. A coroutine can be suspended
\* where it awaits: at the snapshot read and at the sheet update. Nothing is
\* locked in between.
Tasks == {1, 2}
RaceIntents ==
    {Create("Olga", D1, T1, "massage"), Create("Olga", D1, T1, "peeling"),
     Create("Olga", D1, T2, "peeling"), Create("Anna", D1, T1, "peeling")}
Started(r, client) ==
    [pc |-> "validated", request |-> r, client |-> client, available |-> {},
     reserved |-> {}, id |-> 0]

TaskDate(t) == ParseDateCreate(inflight[t].request.date_order)
TaskTime(t) == ParseTime(inflight[t].request.time_set_up)
TaskLabels(t) == SlotLabels(TaskTime(t), DurationSlots(inflight[t].request, EnvOk))

\* a faulty check: an active row of the store on one of the slots refuses
\* the create whatever the snapshot says
SnapshotCheckWithStore(t) ==
    IF \E i \in Ids : /\ Active(bookings[i])
                      /\ bookings[i].specialist = inflight[t].request.cosmetolog
                      /\ bookings[i].date = TaskDate(t)
                      /\ FormatHM(bookings[i].time) \in Range(TaskLabels(t))
    THEN TaskLabels(t)
    ELSE SlotCheck(TaskLabels(t), inflight[t].available, inflight[t].reserved)

\* the slot check on the snapshot the task read
SnapshotCheck(t) ==
    SlotCheck(TaskLabels(t), inflight[t].available, inflight[t].reserved)

RaceInit ==
    /\ bookings = <<>>
    /\ sheetAvail = InitAvail
    /\ sheetReserved = InitReserved
    /\ last = NoCall
    /\ nOps = 0
    /\ inflight \in [Tasks -> {Started(r, c) : r \in RaceIntents, c \in Clients}]
    /\ parse = NoParse
    /\ UnitIdle
    /\ SwitcherInit

\* await get_available_slots_async
ReadSnapshot(t) ==
    /\ inflight[t].pc = "validated"
    /\ inflight' = [inflight EXCEPT
          ![t].pc = "read",
          ![t].available = SnapshotAvailable(inflight[t].request.cosmetolog,
                                             TaskDate(t)),
          ![t].reserved = SnapshotReserved(inflight[t].request.cosmetolog,
                                           TaskDate(t))]
    /\ UNCHANGED <<bookings, sheetAvail, sheetReserved, last, nOps, parse,
                   unit, switcher>>

\* the check of the snapshot, then db.add and db.commit
CheckAndCommit(t) ==
    /\ inflight[t].pc = "read"
    /\ IF SnapshotCheck(t) # <<>>
       THEN /\ inflight' = [inflight EXCEPT ![t].pc = "refused"]
            /\ UNCHANGED bookings
       ELSE LET r == inflight[t].request
                b == NewBooking(bookings, inflight[t].client, r.cosmetolog,
                                TaskDate(t), TaskTime(t),
                                DurationSlots(r, EnvOk) * SlotMinutes,
                                NormalizedService(r, EnvOk))
            IN /\ bookings' = Append(bookings, b)
               /\ inflight' = [inflight EXCEPT ![t].pc = "committed",
                                               ![t].id = b.id]
    /\ UNCHANGED <<sheetAvail, sheetReserved, last, nOps, parse, unit,
                   switcher>>

\* await update_single_booking_slot_async, whose failure is only logged
UpdateSheet(t) ==
    /\ inflight[t].pc = "committed"
    /\ \E ok \in BOOLEAN :
          /\ sheetAvail' = IF ok THEN ReserveAvail(sheetAvail,
                                                  bookings[inflight[t].id])
                           ELSE sheetAvail
          /\ sheetReserved' = IF ok THEN ReserveReserved(sheetReserved,
                                                  bookings[inflight[t].id])
                              ELSE sheetReserved
    /\ inflight' = [inflight EXCEPT ![t].pc = "succeeded"]
    /\ UNCHANGED <<bookings, last, nOps, parse, unit, switcher>>

RaceNext ==
    \E t \in Tasks : \/ ReadSnapshot(t)
                     \/ CheckAndCommit(t)
                     \/ UpdateSheet(t)

RaceSpec == RaceInit /\ [][RaceNext]_vars

\* ------------------------------------------------------------ the parser
\* the date strings handed to _parse_date: every format, with days and
\* months inside and outside the calendar; a DD.MM string carries no year
ParseDays == {1, 5, 29, 30, 31, 32}
ParseMonths == {2, 3, 4, 13}
ParseYears == {2024, 2025}
ParseInputs ==
    {DateStr(f, d, m, y) : f \in {"dmy", "iso", "slash"}, d \in ParseDays,
                           m \in ParseMonths, y \in ParseYears}
    \cup {DateStr("dm", d, m, 0) : d \in ParseDays, m \in ParseMonths}

ParseInit ==
    /\ bookings = <<>>
    /\ sheetAvail = InitAvail
    /\ sheetReserved = InitReserved
    /\ last = NoCall
    /\ nOps = 0
    /\ inflight = <<>>
    /\ parse \in {[NoParse EXCEPT !.input = s] : s \in ParseInputs}
    /\ UnitIdle
    /\ SwitcherInit

ParseDateCall ==
    /\ ~parse.done
    /\ parse' = [parse EXCEPT !.done = TRUE, !.output = ParseDate(parse.input)]
    /\ UNCHANGED <<bookings, sheetAvail, sheetReserved, last, nOps, inflight,
                   unit, switcher>>

ParseNext == ParseDateCall

ParseSpec == ParseInit /\ [][ParseNext]_vars

\* ------------------------------------------- the local availability check
\* the stores and candidates handed to _is_slot_available: one row of either
\* tenant, specialist and status, on and off the 30-minute grid, and a
\* candidate of Olga on the same day given as an HH:MM string
SlotRows ==
    {[id |-> 1, project |-> pr, client |-> "c1", specialist |-> sp,
      date |-> DA, time |-> t, duration |-> n * SlotMinutes,
      service |-> "massage", status |-> st] :
        pr \in {ProjectId, "p2"}, sp \in Specialists, t \in {660, 675, 690},
        n \in {1, 2}, st \in {"active", "cancelled"}}
SlotCandidates ==
    {[NoProbe EXCEPT !.specialist = "Olga", !.date = DA,
                     !.time = TimeStr("colon", h, m), !.duration_slots = n,
                     !.exclude = x] :
        h \in {10, 11}, m \in {0, 15, 30, 45}, n \in {1, 2}, x \in {0, 1}}

SlotInit ==
    /\ bookings \in {<<b>> : b \in SlotRows}
    /\ sheetAvail = InitAvail
    /\ sheetReserved = InitReserved
    /\ last = NoCall
    /\ nOps = 0
    /\ inflight = <<>>
    /\ parse = NoParse
    /\ probe \in SlotCandidates
    /\ split = NoSplit
    /\ SwitcherInit

IsSlotAvailableCall ==
    /\ ~probe.done
    /\ probe' = [probe EXCEPT
          !.done = TRUE,
          !.output = IsSlotAvailable(bookings, probe.specialist, probe.date,
                                     ParseTime(probe.time),
                                     probe.duration_slots, probe.exclude)]
    /\ UNCHANGED <<bookings, sheetAvail, sheetReserved, last, nOps, inflight,
                   parse, split, switcher>>

SlotNext == IsSlotAvailableCall

SlotSpec == SlotInit /\ [][SlotNext]_vars

\* ------------------------------------------------ the procedure splitter
\* _split_combined_procedure, one step per loop iteration. A procedure text
\* is a sequence of tokens: words, the filler word the cleaning removes, and
\* the four separators of split_patterns ("and" stands for the Cyrillic
\* conjunction). is_str is false for an argument that is not a string.
MaxTokens == 3
MaxSpecialists == 3
SplitPatterns == <<"+", ",", "and", ";">>
Tokens == {"massage", "peeling", "visit"} \cup Range(SplitPatterns)
Texts == UNION {[1..n -> Tokens] : n \in 0..MaxTokens}

\* re.split(pattern, part): the pieces around every separator
RECURSIVE ReSplit(_, _)
ReSplit(part, sep) ==
    IF part = <<>> THEN << <<>> >>
    ELSE LET rest == ReSplit(Tail(part), sep)
         IN IF Head(part) = sep THEN << <<>> >> \o rest
            ELSE << <<Head(part)>> \o Head(rest) >> \o Tail(rest)

\* one pass of a pattern over the parts: a part that splits is replaced by
\* its non-empty pieces
RECURSIVE SplitParts(_, _)
SplitParts(parts, sep) ==
    IF parts = <<>> THEN <<>>
    ELSE (IF Len(ReSplit(Head(parts), sep)) > 1
          THEN SelectSeq(ReSplit(Head(parts), sep), LAMBDA x : x # <<>>)
          ELSE <<Head(parts)>>)
         \o SplitParts(Tail(parts), sep)

\* the filler words are removed and the parts left empty are dropped
CleanedParts(parts) ==
    SelectSeq([k \in DOMAIN parts |->
                 SelectSeq(parts[k], LAMBDA x : x # "visit")],
              LAMBDA x : x # <<>>)

\* faulty variants: none is appended
VariantsNone(base, k) == <<>>

\* "<base> (variant i+2)" for i in range(k)
Variants(base, k) == [i \in 1..k |-> Append(base, "variant")]

SplitInit ==
    /\ bookings = <<>>
    /\ sheetAvail = InitAvail
    /\ sheetReserved = InitReserved
    /\ last = NoCall
    /\ nOps = 0
    /\ inflight = <<>>
    /\ parse = NoParse
    /\ probe = NoProbe
    /\ split \in {[NoSplit EXCEPT !.pc = "called", !.specialists = n,
                                  !.parts = <<t>>] :
                     n \in 0..MaxSpecialists, t \in Texts}
                  \cup {[NoSplit EXCEPT !.pc = "called", !.specialists = n,
                                        !.is_str = FALSE] :
                          n \in 0..MaxSpecialists}
    /\ SwitcherInit

SplitFrame ==
    UNCHANGED <<bookings, sheetAvail, sheetReserved, last, nOps, inflight,
                parse, probe, switcher>>

\* combined_procedure.strip(): raises on a text that is not a string
Strip ==
    /\ split.pc = "called"
    /\ split' = IF ~split.is_str
                THEN [split EXCEPT !.pc = "raised"]
                ELSE [split EXCEPT !.pc = "splitting", !.pattern = 1]
    /\ SplitFrame

\* one iteration of the loop over split_patterns, with its break
ApplyPattern ==
    /\ split.pc = "splitting"
    /\ LET new_parts == SplitParts(split.parts, SplitPatterns[split.pattern])
       IN split' = IF Len(new_parts) >= split.specialists
                      \/ split.pattern = Len(SplitPatterns)
                   THEN [split EXCEPT !.parts = new_parts, !.pc = "cleaning"]
                   ELSE [split EXCEPT !.parts = new_parts, !.pattern = @ + 1]
    /\ SplitFrame

CleanParts ==
    /\ split.pc = "cleaning"
    /\ split' = [split EXCEPT !.parts = CleanedParts(split.parts),
                              !.pc = "padding"]
    /\ SplitFrame

\* the while loop with a single part: numbered variants of it are appended
PadVariants ==
    /\ split.pc = "padding"
    /\ Len(split.parts) < split.specialists
    /\ Len(split.parts) = 1
    /\ split' = [split EXCEPT
          !.parts = @ \o Variants(split.parts[1], split.specialists - 1)]
    /\ SplitFrame

\* the while loop with several parts: the last one is appended again
PadDuplicate ==
    /\ split.pc = "padding"
    /\ Len(split.parts) < split.specialists
    /\ Len(split.parts) > 1
    /\ split' = [split EXCEPT !.parts = Append(@, @[Len(@)])]
    /\ SplitFrame

\* the while loop with no part: cleaned_parts[-1] raises IndexError
PadRaises ==
    /\ split.pc = "padding"
    /\ Len(split.parts) < split.specialists
    /\ Len(split.parts) = 0
    /\ split' = [split EXCEPT !.pc = "raised"]
    /\ SplitFrame

\* return cleaned_parts[:len(specialists_list)]
ReturnParts ==
    /\ split.pc = "padding"
    /\ Len(split.parts) >= split.specialists
    /\ split' = [split EXCEPT !.pc = "returned",
                              !.out = SubSeq(split.parts, 1, split.specialists)]
    /\ SplitFrame

\* the except clause: "procedure i+1" for every listed specialist
ReturnFallback ==
    /\ split.pc = "raised"
    /\ split' = [split EXCEPT !.pc = "returned",
                              !.out = [i \in 1..split.specialists |->
                                         <<"procedure", ToString(i)>>]]
    /\ SplitFrame

SplitNext ==
    \/ Strip
    \/ ApplyPattern
    \/ CleanParts
    \/ PadVariants
    \/ PadDuplicate
    \/ PadRaises
    \/ ReturnParts
    \/ ReturnFallback

\* the helper runs on: a step that can be taken is taken
SplitSpec == SplitInit /\ [][SplitNext]_vars /\ WF_vars(SplitNext)

\* -------------------------------------------------------------- properties
\* the parts of the last call
Req == last.request
Done == nOps > 0

\* [start, start + duration) of two rows intersect
Overlap(a, b) ==
    a.time < b.time + b.duration /\ b.time < a.time + a.duration
SameCalendar(a, b) ==
    a.project = b.project /\ a.specialist = b.specialist /\ a.date = b.date

\* a single create that passes validation and reaches the snapshot
CreateValid(r) ==
    /\ ~Missing(r.cosmetolog) /\ ~MissingDate(r.date_order)
    /\ ~MissingTime(r.time_set_up)
    /\ ParseDateCreate(r.date_order) # NoDate
    /\ ParseTime(r.time_set_up) # NoTime
    /\ r.cosmetolog \in Specialists
\* the slot labels a single create would occupy
CreateLabels(r, env) ==
    Range(SlotLabels(ParseTime(r.time_set_up), DurationSlots(r, env)))
\* the rows the step added
Added == (DOMAIN bookings') \ (DOMAIN bookings)
\* the step kept every row that existed as it was
RowsKept == \A i \in DOMAIN bookings : i \in DOMAIN bookings'
                                        /\ bookings'[i] = bookings[i]
SheetKept == sheetAvail' = sheetAvail /\ sheetReserved' = sheetReserved
FeedWrites == {"update_slot", "clear_slot", "log_cancellation", "log_transfer",
               "make_table"}

\* C1: no two active rows of the same tenant, specialist and date have
\* overlapping intervals [start, start + duration), in any reachable state.
C1_NoActiveOverlap ==
    \A i, j \in Ids :
        (i # j /\ Active(bookings[i]) /\ Active(bookings[j])
         /\ SameCalendar(bookings[i], bookings[j]))
        => ~Overlap(bookings[i], bookings[j])

\* C2: process_booking_action never lets an exception escape: every call ends
\* with a result record, and when the selected handler raises that record is
\* success = false with action = "error".
C2_NoExceptionEscapes ==
    [][/\ last'.result.action \in {"activate", "reject", "change", "none",
                                   "error"}
       /\ Handle(last'.request, last'.client, last'.env).raised
          => /\ last'.result.success = FALSE
             /\ last'.result.action = "error"]_vars

\* a call whose handler raised was turned into an error result
C2_Witness ==
    /\ Done
    /\ last.result.action = "error"
    /\ last.handlers = <<"_activate_double_booking">>

\* the handlers C3 expects for an intent, written from the flags
C3_Expected(r) ==
    IF r.activate
    THEN (IF r.double /\ r.specialists_list # <<>>
          THEN <<"_activate_double_booking">> ELSE <<"_activate_booking">>)
    ELSE IF r.reject
    THEN (IF r.double /\ r.specialists_list # <<>>
          THEN <<"_reject_booking", "_reject_double_booking">>
          ELSE <<"_reject_booking", "_reject_single_booking">>)
    ELSE IF r.change
    THEN (IF r.double /\ r.specialists_list # <<>>
          THEN <<"_change_booking", "_change_double_booking">>
          ELSE <<"_change_booking", "_change_single_booking">>)
    ELSE <<>>
C3_Name(r) ==
    IF r.activate THEN "activate" ELSE IF r.reject THEN "reject"
    ELSE IF r.change THEN "change" ELSE "none"

\* C3 as stated: for every intent the dispatcher runs exactly the handler the
\* flags select (activate before reject before change, the double variant iff
\* the cardinality flag and the specialist list are set) and the result's
\* action names that action; with no flag no handler runs, no row changes and
\* the result is success = true with action = "none".
C3_AsStated ==
    [][/\ last'.handlers = C3_Expected(last'.request)
       /\ last'.result.action = C3_Name(last'.request)
       /\ C3_Name(last'.request) = "none"
          => /\ last'.result.success = TRUE
             /\ bookings' = bookings]_vars

\* C3 amended: the same, except that the result's action names the action only
\* when the handler returned; when the handler raised the action is "error".
C3_RoutingByPriority ==
    [][/\ last'.handlers = C3_Expected(last'.request)
       /\ last'.result.action =
            IF Handle(last'.request, last'.client, last'.env).raised
            THEN "error" ELSE C3_Name(last'.request)
       /\ C3_Name(last'.request) = "none"
          => /\ last'.result.success = TRUE
             /\ bookings' = bookings]_vars

\* an intent with all three flags set was routed to the create handler alone
C3_Witness ==
    /\ Done
    /\ Req.activate /\ Req.reject /\ Req.change
    /\ last.handlers = <<"_activate_booking">>
    /\ last.result.action = "activate"

\* C4: a single create that reaches the snapshot is refused with the
\* availability-conflict message and inserts no row whenever one of the slot
\* start times it would occupy is in the snapshot's reserved set of the
\* specialist and date.
C4_ReservedSlotRefused ==
    [][LET r == last'.request
           env == last'.env
       IN (/\ last'.handlers = <<"_activate_booking">>
           /\ CreateValid(r)
           /\ env.feed_read = "ok"
           /\ \E l \in CreateLabels(r, env) :
                 l \in SnapshotReserved(r.cosmetolog,
                                        ParseDateCreate(r.date_order)))
          => /\ last'.result.success = FALSE
             /\ last'.result.message = "slot_unavailable"
             /\ bookings' = bookings]_vars

\* a two-slot create was refused because its second slot is reserved while its
\* start slot is still listed free
C4_Witness ==
    /\ Done
    /\ last.handlers = <<"_activate_booking">>
    /\ last.result.message = "slot_unavailable"
    /\ LET d == ParseDateCreate(Req.date_order)
           t == ParseTime(Req.time_set_up)
       IN /\ FormatHM(t) \in SnapshotAvailable(Req.cosmetolog, d)
          /\ FormatHM(t) \notin SnapshotReserved(Req.cosmetolog, d)
          /\ FormatHM(SlotTime(t, 1)) \in SnapshotReserved(Req.cosmetolog, d)
          /\ FormatHM(SlotTime(t, 1)) \in Range(last.result.slots)

\* C5: when the snapshot's available set of the specialist is empty, a single
\* create for slots that are not in the reserved set is not refused on
\* availability grounds.
C5_EmptyAvailableMeansFree ==
    [][LET r == last'.request
           env == last'.env
           d == ParseDateCreate(r.date_order)
       IN (/\ last'.handlers = <<"_activate_booking">>
           /\ CreateValid(r)
           /\ env.feed_read = "ok"
           /\ SnapshotAvailable(r.cosmetolog, d) = {}
           /\ \A l \in CreateLabels(r, env) :
                 l \notin SnapshotReserved(r.cosmetolog, d))
          => last'.result.message # "slot_unavailable"]_vars

\* C6: a single create whose snapshot lists every needed slot free and not
\* reserved commits a new active row for the requested specialist, date and
\* time whatever the local store holds (the commit itself succeeding).
C6_FeedWinsOverLocalStore ==
    [][LET r == last'.request
           env == last'.env
           d == ParseDateCreate(r.date_order)
       IN (/\ last'.handlers = <<"_activate_booking">>
           /\ CreateValid(r)
           /\ env.feed_read = "ok"
           /\ env.db = "ok"
           /\ \A l \in CreateLabels(r, env) :
                 /\ l \in SnapshotAvailable(r.cosmetolog, d)
                 /\ l \notin SnapshotReserved(r.cosmetolog, d))
          => /\ last'.result.success = TRUE
             /\ RowsKept
             /\ Added = {Len(bookings) + 1}
             /\ LET b == bookings'[Len(bookings) + 1]
                IN /\ Active(b)
                   /\ b.specialist = r.cosmetolog
                   /\ b.date = d
                   /\ b.time = ParseTime(r.time_set_up)]_vars

\* a single create committed a row that overlaps an older active row of the
\* same specialist and date
C6_Witness ==
    /\ Done
    /\ last.handlers = <<"_activate_booking">>
    /\ last.result.success
    /\ \E j \in Ids :
          /\ j < Len(bookings)
          /\ Active(bookings[j])
          /\ SameCalendar(bookings[j], bookings[Len(bookings)])
          /\ Overlap(bookings[j], bookings[Len(bookings)])

\* C7: no create, single or double, commits a row one of whose slot start
\* times over its full duration is in the snapshot's reserved set of the row's
\* specialist and date.
C7_NoRowOnReservedSlot ==
    [][last'.request.activate
       => \A i \in Added :
             \A l \in Range(SlotLabels(bookings'[i].time,
                                       bookings'[i].duration \div SlotMinutes)) :
                l \notin SnapshotReserved(bookings'[i].specialist,
                                          bookings'[i].date)]_vars

\* C8: every create and every reschedule, single or double, returns failure
\* and inserts or mutates no row when the availability feed cannot be read.
C8_FailsClosed ==
    [][(/\ \/ last'.request.activate
           \/ ~last'.request.reject /\ last'.request.change
        /\ last'.env.feed_read = "raise")
       => /\ last'.result.success = FALSE
          /\ bookings' = bookings]_vars

\* C9: a single reschedule of one booking whose target start slot is reserved
\* in the feed by something other than the booking itself, or lies inside
\* another active booking of the target specialist and date, returns failure
\* and leaves the row and the sheet as they were.
C9_CollidingRescheduleRefused ==
    [][LET r == last'.request
           old_date == ParseDate(r.date_reject)
           old_time == ParseTime(r.time_reject)
           new_date == ParseDate(r.date_order)
           new_time == ParseTime(r.time_set_up)
           mine == {i \in Ids : /\ bookings[i].client = last'.client
                                /\ bookings[i].date = old_date
                                /\ Active(bookings[i])}
           found == {i \in mine : /\ bookings[i].specialist = r.cosmetolog
                                  /\ bookings[i].time = old_time}
           own == UNION {Cells(bookings[i].specialist, bookings[i].date,
                               bookings[i].time,
                               bookings[i].duration \div SlotMinutes) :
                         i \in found}
       IN (/\ last'.handlers = <<"_change_booking", "_change_single_booking">>
           /\ Cardinality(mine) = 1
           /\ found = mine
           /\ new_date # NoDate /\ new_time # NoTime
           /\ \/ <<Key(r.cosmetolog), new_date, FormatHM(new_time)>>
                    \in sheetReserved \ own
              \/ \E j \in Ids \ found :
                    /\ Active(bookings[j])
                    /\ bookings[j].specialist = r.cosmetolog
                    /\ bookings[j].date = new_date
                    /\ bookings[j].time <= new_time
                    /\ new_time < bookings[j].time + bookings[j].duration)
          => /\ last'.result.success = FALSE
             /\ bookings' = bookings
             /\ SheetKept]_vars

\* the time the double create uses for each listed specialist
C10_Times(r) ==
    LET parsed == ParseSpecialistTimes(r.gpt_times, r.specialists_list)
    IN IF Len(parsed) = Len(r.specialists_list) THEN parsed
       ELSE FallbackTimes(r.specialists_list, ParseTime(r.time_set_up))

\* C10: a double create inserts no row and makes no feed or reminder write
\* when a listed specialist is not in the roster or, at the snapshot, is not
\* free at their time; and it only ever adds one row per named specialist,
\* all of them or none.
C10_DoubleCreateAllOrNothing ==
    [][LET r == last'.request
           list == r.specialists_list
           d == ParseDate(r.date_order)
           times == C10_Times(r)
       IN last'.handlers = <<"_activate_double_booking">>
          => /\ RowsKept
             /\ Cardinality(Added) \in {0, Cardinality(Range(list))}
             /\ (\/ \E k \in DOMAIN list : list[k] \notin Specialists
                 \/ /\ Len(list) >= 2
                    /\ d # NoDate
                    /\ ParseTime(r.time_set_up) # NoTime
                    /\ last'.env.feed_read = "ok"
                    /\ \E k \in DOMAIN times :
                          \/ FormatHM(times[k][2])
                                \notin SnapshotAvailable(times[k][1], d)
                          \/ FormatHM(times[k][2])
                                \in SnapshotReserved(times[k][1], d))
                => /\ last'.result.success = FALSE
                   /\ bookings' = bookings
                   /\ SheetKept
                   /\ Range(last'.events) \cap FeedWrites = {}]_vars

\* a double create was refused because exactly one of its two specialists was
\* taken, and no row of it exists
C10_Witness ==
    /\ Done
    /\ last.handlers = <<"_activate_double_booking">>
    /\ last.result.message = "slot_unavailable"
    /\ Len(last.result.names) = 1
    /\ Len(Req.specialists_list) = 2

\* C11 as stated: a successful double create for the list [s1, s2] that
\* carries the per-specialist time list [t1, t2] adds exactly two active rows,
\* one for s1 at t1 and one for s2 at t2, each with the service the
\* procedure list gives it when one is supplied.
C11_RowsFollowTimeList ==
    [][LET r == last'.request
           list == r.specialists_list
           tl == r.times_set_up_list
           pl == r.procedures_list
       IN (/\ last'.handlers = <<"_activate_double_booking">>
           /\ last'.result.success
           /\ Len(list) = 2 /\ Len(tl) = 2)
          => /\ RowsKept
             /\ Cardinality(Added) = 2
             /\ \A k \in 1..2 :
                   \E i \in Added :
                      /\ Active(bookings'[i])
                      /\ bookings'[i].specialist = list[k]
                      /\ bookings'[i].time = ParseTime(tl[k])
                      /\ Len(pl) = 2 => bookings'[i].service = pl[k]]_vars

\* the booking a single cancel is aimed at: the client's active rows at the
\* source date and time
C12_Target(r, client) ==
    {i \in Ids : /\ bookings[i].project = ProjectId
                 /\ bookings[i].client = client
                 /\ bookings[i].date = ParseDate(r.date_reject)
                 /\ bookings[i].time = ParseTime(r.time_reject)
                 /\ Active(bookings[i])}

\* C12: a single cancel with a source date and time at which the client has
\* no active booking (none ever existed, or it is cancelled already) changes
\* no row, makes no feed call and returns success = false with the not-found
\* message.
C12_CancelIdempotent ==
    [][LET r == last'.request
       IN (/\ last'.handlers = <<"_reject_booking", "_reject_single_booking">>
           /\ ParseDate(r.date_reject) # NoDate
           /\ ParseTime(r.time_reject) # NoTime
           /\ C12_Target(r, last'.client) = {})
          => /\ last'.result.success = FALSE
             /\ last'.result.message = "not_found"
             /\ bookings' = bookings
             /\ SheetKept
             /\ Range(last'.events) \cap FeedWrites = {}]_vars

\* the second cancel of a booking that the first cancel cancelled was answered
\* with not-found
C12_Witness ==
    /\ Done
    /\ last.handlers = <<"_reject_booking", "_reject_single_booking">>
    /\ last.result.message = "not_found"
    /\ \E i \in Ids :
          /\ bookings[i].status = "cancelled"
          /\ bookings[i].client = last.client
          /\ bookings[i].specialist = Req.cosmetolog
          /\ bookings[i].date = ParseDate(Req.date_reject)
          /\ bookings[i].time = ParseTime(Req.time_reject)

\* C13: a single cancel by a client who has exactly one active booking at the
\* source date and time sets exactly that row to cancelled, whatever
\* specialist the intent names, and leaves every other row as it was (the
\* commit itself succeeding).
C13_CancelByDateTime ==
    [][LET r == last'.request
           target == C12_Target(r, last'.client)
       IN (/\ last'.handlers = <<"_reject_booking", "_reject_single_booking">>
           /\ ParseDate(r.date_reject) # NoDate
           /\ ParseTime(r.time_reject) # NoTime
           /\ last'.env.db = "ok"
           /\ Cardinality(target) = 1)
          => bookings' = [i \in Ids |->
                            IF i \in target
                            THEN [bookings[i] EXCEPT !.status = "cancelled"]
                            ELSE bookings[i]]]_vars

\* C14: in every booking action whose commit succeeded and changed a row,
\* whatever a later feed, reminder or exporter call does, the result is
\* success = true (and the changed rows stay).
C14_SyncFailureNotSurfaced ==
    [][(last'.env.db = "ok" /\ bookings' # bookings)
       => last'.result.success = TRUE]_vars

\* C15: in every booking action each feed or reminder write (reserve, clear,
\* log_cancellation, log_transfer, enqueue) is made after the action's
\* commit.
C15_WritesAfterCommit ==
    [][\A k \in DOMAIN last'.events :
          last'.events[k] \in FeedWrites
          => \E j \in 1..(k - 1) : last'.events[j] = "commit"]_vars

\* C16: a successful single reschedule that names a source time and a target
\* time keeps the number of rows, keeps the id, client and active status of
\* the row found at the source (specialist, date, time), sets that row's
\* specialist, date and time to the target values, and changes no other row.
C16_InPlaceReschedule ==
    [][LET r == last'.request
           found == MatchRows(bookings, last'.client, r.cosmetolog,
                              ParseDate(r.date_reject),
                              ParseTime(r.time_reject))
       IN (/\ last'.handlers = <<"_change_booking", "_change_single_booking">>
           /\ ParseTime(r.time_reject) # NoTime
           /\ ParseTime(r.time_set_up) # NoTime
           /\ last'.result.success)
          => /\ Len(bookings') = Len(bookings)
             /\ \E i \in found :
                   /\ bookings'[i].id = i
                   /\ bookings'[i].client = bookings[i].client
                   /\ Active(bookings'[i])
                   /\ bookings'[i].specialist = r.cosmetolog
                   /\ bookings'[i].date = ParseDate(r.date_order)
                   /\ bookings'[i].time = ParseTime(r.time_set_up)
                   /\ \A j \in Ids \ {i} : bookings'[j] = bookings[j]]_vars

\* the client's active bookings on the source date of a reschedule
C17_OnSourceDate(r, client) ==
    {i \in Ids : /\ bookings[i].project = ProjectId
                 /\ bookings[i].client = client
                 /\ bookings[i].date = ParseDate(r.date_reject)
                 /\ Active(bookings[i])}
\* a reschedule without a source time by a client with more than one active
\* booking on the source date, whose commit goes through
C17_Bulk(r, client, env) ==
    /\ ParseDate(r.date_reject) # NoDate
    /\ ParseDate(r.date_order) # NoDate
    /\ MissingTime(r.time_reject)
    /\ Cardinality(C17_OnSourceDate(r, client)) > 1
    /\ env.db = "ok"

\* C17 as stated: such a reschedule moves every one of the client's active
\* bookings of the source date to the new date, each keeping its time and
\* specialist.
C17_AllMoved ==
    [][LET r == last'.request
       IN (/\ last'.handlers = <<"_change_booking", "_change_single_booking">>
           /\ C17_Bulk(r, last'.client, last'.env))
          => \A i \in C17_OnSourceDate(r, last'.client) :
                bookings'[i] = [bookings[i] EXCEPT
                                  !.date = ParseDate(r.date_order)]]_vars

\* C17 amended: such a reschedule moves to the new date, with its own time
\* and specialist, each of those bookings whose slots on the new date are not
\* held by another active booking of its specialist; the others stay as they
\* were, as does every other row, and the result is success = true exactly
\* when at least one booking was moved.
C17_BulkTransfer ==
    [][LET r == last'.request
           all == C17_OnSourceDate(r, last'.client)
           new_date == ParseDate(r.date_order)
           free == {i \in all :
                      IsSlotAvailable(bookings', bookings[i].specialist,
                                      new_date, bookings[i].time,
                                      bookings[i].duration \div SlotMinutes,
                                      i)}
       IN (/\ last'.handlers = <<"_change_booking", "_change_single_booking">>
           /\ C17_Bulk(r, last'.client, last'.env))
          => /\ bookings' = [i \in Ids |->
                                IF i \in free
                                THEN [bookings[i] EXCEPT !.date = new_date]
                                ELSE bookings[i]]
             /\ last'.result.success = (free # {})]_vars

\* a reschedule without a source time moved two bookings of one day to
\* another day
C17_Witness ==
    /\ Done
    /\ last.handlers = <<"_change_booking", "_change_single_booking">>
    /\ MissingTime(Req.time_reject)
    /\ last.result.message = "transferred"
    /\ Len(last.result.ids) = 2
    /\ \A k \in 1..2 :
          bookings[last.result.ids[k]].date = ParseDate(Req.date_order)
    /\ ParseDate(Req.date_order) # ParseDate(Req.date_reject)

\* C18: a single reschedule that names a source time changes no row other
\* than the client's booking at the source date and time, and when it
\* succeeds that booking is at the target date and time.
C18_ExplicitSourceMovesOne ==
    [][LET r == last'.request
           src == {i \in C17_OnSourceDate(r, last'.client) :
                      bookings[i].time = ParseTime(r.time_reject)}
       IN (/\ last'.handlers = <<"_change_booking", "_change_single_booking">>
           /\ ParseDate(r.date_reject) # NoDate
           /\ ParseDate(r.date_order) # NoDate
           /\ ParseTime(r.time_reject) # NoTime)
          => /\ \A j \in Ids \ src : bookings'[j] = bookings[j]
             /\ last'.result.success
                => \E i \in src :
                      /\ bookings'[i].date = ParseDate(r.date_order)
                      /\ bookings'[i].time = ParseTime(r.time_set_up)]_vars

\* the rows a double cancel finds for the k-th listed specialist
C19_Found(r, client, k) ==
    MatchRows(bookings, client, r.specialists_list[k],
              ParseDate(r.date_reject), ParseTime(r.time_reject))

\* C19: a double cancel (two specialists, parseable source date and time, the
\* commit succeeding) cancels one matching active row for every listed
\* specialist that has one and returns success = true listing the rows it
\* cancelled, also when another listed specialist has none; it returns
\* failure and changes no row only when no listed specialist has a matching
\* row.
C19_DoubleCancelBestEffort ==
    [][LET r == last'.request
           list == r.specialists_list
           c == last'.client
           ids == Range(last'.result.ids)
       IN (/\ last'.handlers = <<"_reject_booking", "_reject_double_booking">>
           /\ Len(list) >= 2
           /\ ParseDate(r.date_reject) # NoDate
           /\ ParseTime(r.time_reject) # NoTime
           /\ last'.env.db = "ok")
          => IF \A k \in DOMAIN list : C19_Found(r, c, k) = {}
             THEN last'.result.success = FALSE /\ bookings' = bookings
             ELSE /\ last'.result.success = TRUE
                  /\ bookings' = [i \in Ids |->
                                     IF i \in ids
                                     THEN [bookings[i] EXCEPT
                                             !.status = "cancelled"]
                                     ELSE bookings[i]]
                  /\ \A i \in ids :
                        \E k \in DOMAIN list : i \in C19_Found(r, c, k)
                  /\ \A k \in DOMAIN list :
                        C19_Found(r, c, k) # {}
                        => ids \cap C19_Found(r, c, k) # {}]_vars

\* a double cancel for two different specialists found a row for one of them
\* only, cancelled it and returned success
C19_Witness ==
    /\ Done
    /\ last.handlers = <<"_reject_booking", "_reject_double_booking">>
    /\ last.result.success
    /\ Len(Req.specialists_list) = 2
    /\ Req.specialists_list[1] # Req.specialists_list[2]
    /\ Len(last.result.ids) = 1
    /\ bookings[last.result.ids[1]].status = "cancelled"

\* C20: a double cancel with a source date and no time (neither a source time
\* nor a per-specialist time list) cancels, for each listed specialist that
\* has an active booking of the client on that date, one such booking, and
\* returns success.
C20_CancelByDateAlone ==
    [][LET r == last'.request
           list == r.specialists_list
           d == ParseDate(r.date_reject)
           onDate(k) == {i \in Ids : /\ bookings[i].project = ProjectId
                                      /\ bookings[i].client = last'.client
                                      /\ bookings[i].specialist = list[k]
                                      /\ bookings[i].date = d
                                      /\ Active(bookings[i])}
       IN (/\ last'.handlers = <<"_reject_booking", "_reject_double_booking">>
           /\ Len(list) >= 2
           /\ d # NoDate
           /\ MissingTime(r.time_reject)
           /\ r.times_reject_list = <<>>
           /\ last'.env.db = "ok"
           /\ \E k \in DOMAIN list : onDate(k) # {})
          => /\ last'.result.success = TRUE
             /\ \A k \in DOMAIN list :
                   onDate(k) # {}
                   => \E i \in onDate(k) :
                         bookings'[i].status = "cancelled"]_vars

\* the client's active bookings, the rows a double reschedule chooses from
C21_Mine(client) ==
    {i \in Ids : /\ bookings[i].project = ProjectId
                 /\ bookings[i].client = client
                 /\ Active(bookings[i])}
\* the feed lists the start slot free and not reserved
C21_FreeInFeed(specialist, d, t) ==
    /\ <<Key(specialist), d, FormatHM(t)>> \in sheetAvail
    /\ <<Key(specialist), d, FormatHM(t)>> \notin sheetReserved
\* a double reschedule that reaches the feed check
C21_Reaches(r, client, env) ==
    /\ Len(r.specialists_list) >= 2
    /\ C21_Mine(client) # {}
    /\ ParseDate(r.date_order) # NoDate
    /\ ParseTime(r.time_set_up) # NoTime
    /\ env.feed_read = "ok"

\* C21: a double reschedule of a client with two active bookings for which
\* exactly one of the two new slots is free in the feed still moves a row to
\* the free specialist's new slot, commits it and returns success.
C21_PartialReschedule ==
    [][LET r == last'.request
           list == r.specialists_list
           d == ParseDate(r.date_order)
           t == ParseTime(r.time_set_up)
           free == {k \in 1..2 : C21_FreeInFeed(list[k], d, t)}
       IN (/\ last'.handlers = <<"_change_booking", "_change_double_booking">>
           /\ C21_Reaches(r, last'.client, last'.env)
           /\ Cardinality(C21_Mine(last'.client)) >= 2
           /\ last'.env.db = "ok"
           /\ Cardinality(free) = 1)
          => /\ last'.result.success = TRUE
             /\ \E i \in C21_Mine(last'.client) :
                   \E k \in free :
                      /\ bookings'[i].specialist = list[k]
                      /\ bookings'[i].date = d
                      /\ bookings'[i].time = t]_vars

\* C22: a double reschedule changes only active bookings of the client whose
\* specialist is one of the named specialists, and changes no row's
\* specialist.
C22_OwnRowsOnly ==
    [][last'.handlers = <<"_change_booking", "_change_double_booking">>
       => \A i \in Ids :
             /\ bookings'[i].specialist = bookings[i].specialist
             /\ bookings'[i] # bookings[i]
                => /\ i \in C21_Mine(last'.client)
                   /\ bookings[i].specialist
                         \in Range(last'.request.specialists_list)]_vars

\* the named specialists whose new slot the feed does not list as free
C29_Occupied(r) ==
    SelectSeq(SubSeq(r.specialists_list, 1, 2),
              LAMBDA s : ~C21_FreeInFeed(s, ParseDate(r.date_order),
                                         ParseTime(r.time_set_up)))

\* C29: a double reschedule for which the feed lists the new slot of either
\* specialist as unavailable changes no row, clears and writes no external
\* slot, and fails naming exactly the occupied specialists.
C29_BothSlotsValidatedFirst ==
    [][(/\ last'.handlers = <<"_change_booking", "_change_double_booking">>
        /\ C21_Reaches(last'.request, last'.client, last'.env)
        /\ C29_Occupied(last'.request) # <<>>)
       => /\ bookings' = bookings
          /\ SheetKept
          /\ \A k \in 1..Len(last'.events) :
                last'.events[k] \notin {"clear_slot", "commit", "update_slot"}
          /\ last'.result.success = FALSE
          /\ last'.result.message = "new_time_taken"
          /\ last'.result.names = C29_Occupied(last'.request)]_vars

\* a double reschedule of a client with two active bookings was refused
\* because exactly one of the two new slots is occupied
C29_Witness ==
    /\ last.handlers = <<"_change_booking", "_change_double_booking">>
    /\ last.result.message = "new_time_taken"
    /\ Len(last.result.names) = 1
    /\ Cardinality(C21_Mine(last.client)) >= 2

\* the messages of the checks that precede the try block of a create
C23_ValidationMessages ==
    {"not_enough_specialists", "missing_fields", "bad_date", "bad_time",
     "unknown_specialist"}
\* the step is a create of the given variant
C23_Create(double) ==
    last'.handlers = <<IF double THEN "_activate_double_booking"
                       ELSE "_activate_booking">>
\* a double create whose date, specialists or list length are invalid
C23_DoubleInvalid(r) ==
    \/ Len(r.specialists_list) < 2
    \/ MissingDate(r.date_order) \/ MissingTime(r.time_set_up)
    \/ ParseDate(r.date_order) = NoDate
    \/ \E k \in DOMAIN r.specialists_list :
          r.specialists_list[k] \notin Specialists
\* the free text gives a time to every listed specialist
C23_TimesFromText(r) ==
    Len(ParseSpecialistTimes(r.gpt_times, r.specialists_list))
      = Len(r.specialists_list)
\* the step failed on validation and did nothing else
C23_Refused ==
    /\ last'.result.success = FALSE
    /\ last'.result.message \in C23_ValidationMessages
    /\ bookings' = bookings
    /\ SheetKept
    /\ last'.events = <<>>

\* C23 (as stated): a single or double create with a missing specialist, date
\* or time, an unparsable date or time, or a specialist outside the roster
\* fails with a validation message, inserts no row and makes no feed or
\* reminder call.
C23_AsStated ==
    [][/\ (C23_Create(FALSE) /\ ~CreateValid(last'.request)) => C23_Refused
       /\ (/\ C23_Create(TRUE)
           /\ \/ C23_DoubleInvalid(last'.request)
              \/ ParseTime(last'.request.time_set_up) = NoTime)
          => C23_Refused]_vars

\* C23: as above, where for a double create the shared time counts as
\* unparsable only when it is needed, that is when the free text does not
\* give a time to every listed specialist.
C23_ValidationFirst ==
    [][/\ (C23_Create(FALSE) /\ ~CreateValid(last'.request)) => C23_Refused
       /\ (/\ C23_Create(TRUE)
           /\ \/ C23_DoubleInvalid(last'.request)
              \/ /\ ~C23_TimesFromText(last'.request)
                 /\ ParseTime(last'.request.time_set_up) = NoTime)
          => C23_Refused]_vars

\* with rows in the store, a double create whose free text names no time was
\* refused for its unparsable shared time
C23_Witness ==
    /\ Len(bookings) > 0
    /\ last.handlers = <<"_activate_double_booking">>
    /\ last.request.gpt_times = <<>>
    /\ ParseTime(last.request.time_set_up) = NoTime
    /\ last.result.success = FALSE
    /\ last.result.message = "bad_time"

\* the slot count the configuration gives for the submitted service, with the
\* answer of the renormalization for a service it does not list
C24_Slots(r, env) ==
    IF r.procedure \in ServiceNames THEN Services[r.procedure]
    ELSE IF r.procedure # NoneStr /\ env.normalize \in ServiceNames
    THEN Services[env.normalize]
    ELSE 1

\* C24: a successful single create adds exactly one row, active, whose
\* duration is 30 minutes times the slot count configured for the service,
\* or 30 minutes when the service is absent or unknown even after the
\* renormalization; a valid create on free slots with a healthy store
\* succeeds whether or not the renormalization raised.
C24_OneRowWithDuration ==
    [][LET r == last'.request
           env == last'.env
           n == Len(bookings)
       IN last'.handlers = <<"_activate_booking">>
          => /\ last'.result.success = TRUE
                => /\ Len(bookings') = n + 1
                   /\ RowsKept
                   /\ bookings'[n + 1].status = "active"
                   /\ bookings'[n + 1].duration = 30 * C24_Slots(r, env)
                   /\ last'.result.ids = <<n + 1>>
             /\ (/\ CreateValid(r)
                 /\ env.feed_read = "ok" /\ env.db = "ok"
                 /\ \A l \in Range(SlotLabels(ParseTime(r.time_set_up),
                                               C24_Slots(r, env))) :
                       /\ l \in SnapshotAvailable(r.cosmetolog,
                                      ParseDateCreate(r.date_order))
                       /\ l \notin SnapshotReserved(r.cosmetolog,
                                      ParseDateCreate(r.date_order)))
                => last'.result.success = TRUE]_vars

\* a create of an unknown service succeeded with 30 minutes after the
\* renormalization raised
C24_Witness ==
    /\ last.handlers = <<"_activate_booking">>
    /\ last.result.success = TRUE
    /\ last.request.procedure \notin ServiceNames
    /\ last.request.procedure # NoneStr
    /\ last.env.normalize = "raise"
    /\ bookings[Len(bookings)].duration = 30

\* the fetch after the step returns a record with the submitted specialist,
\* the normalized date and time and the given service name
C25_Fetched(service) ==
    \E rec \in GetClientBookings(bookings', last'.client) :
       /\ rec.id \in Added
       /\ rec.specialist_name = last'.request.cosmetolog
       /\ rec.date = ParseDateCreate(last'.request.date_order)
       /\ rec.time = ParseTime(last'.request.time_set_up)
       /\ rec.service_name = service

\* C25 (as stated): after a successful single create, get_client_bookings
\* for that client returns a record whose specialist, date, time and service
\* are the submitted ones (date and time normalized).
C25_AsStated ==
    [][(last'.handlers = <<"_activate_booking">>
        /\ last'.result.success = TRUE)
       => C25_Fetched(last'.request.procedure)]_vars

\* C25: after a successful single create, get_client_bookings for that
\* client returns a record with the submitted specialist, the normalized date
\* and time, and as service the submitted name when it is configured or
\* absent or the renormalization raised, and otherwise the name the
\* renormalization returned.
C25_CreateThenFetch ==
    [][(last'.handlers = <<"_activate_booking">>
        /\ last'.result.success = TRUE)
       => C25_Fetched(IF \/ last'.request.procedure \in ServiceNames
                         \/ last'.request.procedure = NoneStr
                         \/ last'.env.normalize = "raise"
                      THEN last'.request.procedure
                      ELSE last'.env.normalize)]_vars

\* a create of an unlisted service succeeded and the fetch returns it under
\* the renormalized name
C25_Witness ==
    /\ last.handlers = <<"_activate_booking">>
    /\ last.result.success = TRUE
    /\ last.request.procedure = "lifting"
    /\ \E rec \in GetClientBookings(bookings, last.client) :
          /\ <<rec.id>> = last.result.ids
          /\ rec.specialist_name = last.request.cosmetolog
          /\ rec.service_name = "massage"

\* C26: _parse_date returns, for a string in any of the formats DD.MM.YYYY,
\* DD.MM (year: the current one), YYYY-MM-DD and DD/MM/YYYY that names a
\* calendar day, that day, and null for a string with an impossible day or
\* month.
C26_FourFormats ==
    parse.done
    => LET s == parse.input
           y == IF s.fmt = "dm" THEN CurrentYear ELSE s.y
       IN IF ValidDate(s.d, s.m, y)
          THEN parse.output = MkDate(s.d, s.m, y)
          ELSE parse.output = NoDate

\* the snapshot the task read lists every slot of its request free
C27_SnapshotFree(t) ==
    \A l \in Range(TaskLabels(t)) :
       l \in inflight[t].available /\ l \notin inflight[t].reserved

\* C27: nothing excludes a concurrent create: a task whose snapshot lists its
\* slots free commits an active row for its request when it resumes, whatever
\* the other task has committed since the snapshot was read.
C27_NoMutualExclusion ==
    [][\A t \in Tasks :
         (/\ inflight[t].pc = "read"
          /\ inflight'[t].pc # "read"
          /\ C27_SnapshotFree(t))
         => /\ inflight'[t].pc = "committed"
            /\ Len(bookings') = Len(bookings) + 1
            /\ RowsKept
            /\ LET b == bookings'[Len(bookings')]
               IN /\ Active(b)
                  /\ b.client = inflight[t].client
                  /\ b.specialist = inflight[t].request.cosmetolog
                  /\ b.date = TaskDate(t)
                  /\ b.time = TaskTime(t)]_vars

\* two creates for the same specialist, date and time, both with a snapshot
\* that lists the slot free (so both read before either wrote to the feed),
\* have both committed: two overlapping active rows
C27_Witness ==
    /\ DOMAIN inflight = Tasks
    /\ \A t \in Tasks : /\ inflight[t].pc \in {"committed", "succeeded"}
                        /\ C27_SnapshotFree(t)
    /\ inflight[1].request.cosmetolog = inflight[2].request.cosmetolog
    /\ TaskDate(1) = TaskDate(2)
    /\ TaskTime(1) = TaskTime(2)
    /\ Active(bookings[inflight[1].id])
    /\ Active(bookings[inflight[2].id])
    /\ inflight[1].id # inflight[2].id
    /\ SameCalendar(bookings[inflight[1].id], bookings[inflight[2].id])
    /\ Overlap(bookings[inflight[1].id], bookings[inflight[2].id])

\* the step is a single reschedule of the only active booking the client has
\* on the source date, found by specialist, date and time
C28_One(i) ==
    LET r == last'.request
    IN /\ last'.handlers = <<"_change_booking", "_change_single_booking">>
       /\ ParseDate(r.date_reject) # NoDate /\ ParseDate(r.date_order) # NoDate
       /\ ParseTime(r.time_reject) # NoTime /\ ParseTime(r.time_set_up) # NoTime
       /\ {j \in Ids : /\ bookings[j].project = ProjectId
                       /\ bookings[j].client = last'.client
                       /\ bookings[j].date = ParseDate(r.date_reject)
                       /\ Active(bookings[j])} = {i}
       /\ bookings[i].specialist = r.cosmetolog
       /\ bookings[i].time = ParseTime(r.time_reject)
\* another active row of the target specialist overlaps the target interval
C28_TargetTaken(i) ==
    LET r == last'.request
        target == [bookings[i] EXCEPT !.specialist = r.cosmetolog,
                                      !.date = ParseDate(r.date_order),
                                      !.time = ParseTime(r.time_set_up)]
    IN \E j \in Ids \ {i} : /\ Active(bookings[j])
                             /\ SameCalendar(bookings[j], target)
                             /\ Overlap(bookings[j], target)
\* positions of a call in the log of the step
C28_At(name) == {k \in 1..Len(last'.events) : last'.events[k] = name}

\* C28: a single reschedule validates the new slot before anything else (a
\* taken target fails with no call made and nothing changed); a successful
\* one clears the old external slot, then commits the mutated row, then
\* writes the new external slot; and a raising clear of the old slot does not
\* stop the mutation and commit.
C28_RescheduleOrder ==
    [][/\ \A i \in Ids :
            C28_One(i)
            => /\ C28_TargetTaken(i)
                  => /\ last'.result.success = FALSE
                     /\ last'.events = <<>>
                     /\ bookings' = bookings /\ SheetKept
               /\ (/\ ~C28_TargetTaken(i)
                   /\ last'.env.db = "ok"
                   /\ SyncAt(last'.env, 1) # "raise")
                  => /\ last'.result.success = TRUE
                     /\ bookings'[i].date = ParseDate(last'.request.date_order)
                     /\ bookings'[i].time = ParseTime(last'.request.time_set_up)
                     /\ SubSeq(last'.events, 1, 3)
                          = <<"clear_slot", "commit", "update_slot">>
       /\ (/\ last'.handlers = <<"_change_booking", "_change_single_booking">>
           /\ last'.result.success = TRUE)
          => /\ C28_At("clear_slot") # {}
             /\ Cardinality(C28_At("commit")) = 1
             /\ C28_At("update_slot") # {}
             /\ \A c \in C28_At("clear_slot") : \A k \in C28_At("commit") :
                   c < k
             /\ \A k \in C28_At("commit") : \A u \in C28_At("update_slot") :
                   k < u]_vars

\* a single reschedule of the client's only booking of the day succeeded
\* although the clear of the old slot raised: the row is moved and the feed
\* still lists the old slot as reserved
C28_Witness ==
    /\ last.handlers = <<"_change_booking", "_change_single_booking">>
    /\ last.result.success = TRUE
    /\ last.result.message = "changed"
    /\ last.env.clear = "raise"
    /\ last.events = <<"clear_slot", "commit", "update_slot", "log_transfer">>
    /\ \E i \in Ids :
          /\ bookings[i].date = ParseDate(last.request.date_order)
          /\ bookings[i].time = ParseTime(last.request.time_set_up)
          /\ <<Key(bookings[i].specialist), ParseDate(last.request.date_reject),
               FormatHM(ParseTime(last.request.time_reject))>>
                \in sheetReserved

\* the feed lists the start slot of the row as reserved after the step
C30_Reserved(b) ==
    <<Key(b.specialist), b.date, FormatHM(b.time)>> \in sheetReserved'

\* C30: a double create that committed its rows attempts one feed update per
\* inserted row, each on its own: the k-th row is reserved in the feed
\* exactly when the k-th update succeeded, whatever the other update did; no
\* row is rolled back and the result is success with the ids of the rows.
C30_PerRowSync ==
    [][LET n == Len(bookings)
           ids == [k \in 1..Cardinality(Added) |-> n + k]
       IN (last'.handlers = <<"_activate_double_booking">> /\ Added # {})
          => /\ RowsKept
             /\ \A i \in Added : Active(bookings'[i])
             /\ last'.result.success = TRUE
             /\ last'.result.ids = ids
             /\ Cardinality({k \in 1..Len(last'.events) :
                               last'.events[k] = "update_slot"})
                  = Cardinality(Added)
             /\ \A k \in DOMAIN ids :
                   C30_Reserved(bookings'[ids[k]])
                     <=> SyncAt(last'.env, k) = "ok"]_vars

\* a double create inserted two rows; the feed update of the first failed
\* and the second row is reserved in the feed all the same
C30_Witness ==
    /\ last.handlers = <<"_activate_double_booking">>
    /\ last.result.success = TRUE
    /\ Len(last.result.ids) = 2
    /\ SyncAt(last.env, 1) \in {"false", "raise"}
    /\ LET a == bookings[last.result.ids[1]]
           b == bookings[last.result.ids[2]]
       IN /\ Active(a) /\ Active(b)
          /\ <<Key(a.specialist), a.date, FormatHM(a.time)>> \notin sheetReserved
          /\ <<Key(b.specialist), b.date, FormatHM(b.time)>> \in sheetReserved

\* C31: _is_slot_available returns false exactly when the candidate interval
\* [time, time + 30 * duration_slots) overlaps the interval of an active
\* booking of the tenant, specialist and date other than the excluded one,
\* for every HH:MM start time.
C31_FalseIffOverlap ==
    probe.done
    => LET candidate == [project |-> ProjectId,
                         specialist |-> probe.specialist, date |-> probe.date,
                         time |-> ParseTime(probe.time),
                         duration |-> SlotMinutes * probe.duration_slots]
       IN probe.output = FALSE
          <=> \E i \in Ids : /\ i # probe.exclude
                             /\ Active(bookings[i])
                             /\ SameCalendar(bookings[i], candidate)
                             /\ Overlap(bookings[i], candidate)

\* C32: a call of the procedure-splitting helper ends, whatever the text and
\* the number N of listed specialists, and what it returns is a list of
\* exactly N procedure names.
C32_SplitTerminates ==
    <>[](split.pc = "returned" /\ Len(split.out) = split.specialists)

\* the helper returned three names for three specialists after padding a
\* single part with variants
C32_Witness ==
    /\ split.pc = "returned"
    /\ split.specialists = 3
    /\ Len(split.out) = 3
    /\ split.out[2] = Append(split.out[1], "variant")

\* C33: after every booking action each row's duration is a positive
\* multiple of the 30-minute slot unit: a row a single create adds has 30
\* times a configured slot count or 30, a row a double create adds has 60,
\* and no action changes the duration of a row that exists.
C33_DurationMultiple ==
    [][/\ \A i \in DOMAIN bookings' :
            /\ bookings'[i].duration > 0
            /\ bookings'[i].duration % 30 = 0
       /\ \A i \in DOMAIN bookings :
            /\ i \in DOMAIN bookings'
            /\ bookings'[i].duration = bookings[i].duration
       /\ \A i \in Added :
            /\ last'.handlers = <<"_activate_booking">>
               => bookings'[i].duration
                    \in {30} \cup {30 * Services[x] : x \in ServiceNames}
            /\ last'.handlers = <<"_activate_double_booking">>
               => bookings'[i].duration = 60
            /\ last'.handlers \in {<<"_activate_booking">>,
                                   <<"_activate_double_booking">>}]_vars

\* the store holds a single-create row of 30 minutes, a double-create row of
\* 60 minutes, and a rescheduled or cancelled row
C33_Witness ==
    /\ \E i, j \in Ids : /\ bookings[i].duration = 30
                         /\ bookings[j].duration = 60
                         /\ bookings[j].service \notin ServiceNames
    /\ last.result.success = TRUE
    /\ last.result.action \in {"reject", "change"}

\* C34: a booking action that returns success=false has inserted no row and
\* changed no row.
C34_FailureChangesNothing ==
    [][last'.result.success = FALSE => bookings' = bookings]_vars

\* the feed lists every unit slot of the row as reserved or as no longer free
C35_HeldInFeed(b) ==
    \A c \in Cells(b.specialist, b.date, b.time, b.duration \div SlotMinutes) :
       c \in sheetReserved \/ c \notin sheetAvail

\* C35: while the feed holds the slots of an active booking, a create,
\* single or double, adds no row of the same specialist and date whose
\* interval overlaps that booking.
C35_NoOverlappingCreate ==
    [][last'.handlers \in {<<"_activate_booking">>,
                           <<"_activate_double_booking">>}
       => \A i \in Ids : \A j \in Added :
             (/\ Active(bookings[i])
              /\ C35_HeldInFeed(bookings[i])
              /\ SameCalendar(bookings[i], bookings'[j]))
             => ~Overlap(bookings[i], bookings'[j])]_vars

\* C36: a cancelled row is never changed again and no row is ever removed.
C36_CancelledIsTerminal ==
    [][/\ Len(bookings') >= Len(bookings)
       /\ \A i \in Ids :
            bookings[i].status = "cancelled" => bookings'[i] = bookings[i]]_vars

\* the client has a cancelled booking, and the cancel or reschedule that
\* names its specialist, date and time again found nothing
C36_Witness ==
    /\ last.result.action \in {"reject", "change"}
    /\ last.result.success = FALSE
    /\ last.result.message = "not_found"
    /\ \E i \in Ids :
          /\ bookings[i].status = "cancelled"
          /\ bookings[i].project = ProjectId
          /\ bookings[i].client = last.client
          /\ bookings[i].specialist = last.request.cosmetolog
          /\ bookings[i].date = ParseDate(last.request.date_reject)
          /\ bookings[i].time = ParseTime(last.request.time_reject)

\* C37: a cancel or reschedule issued for a client changes only rows of that
\* client in the tenant of the service; every row of another client or of
\* another tenant is left as it was, and no row is added.
C37_Isolation ==
    [][last'.result.action \in {"reject", "change"}
       => /\ Len(bookings') = Len(bookings)
          /\ \A i \in Ids :
               (bookings[i].client # last'.client
                \/ bookings[i].project # ProjectId)
               => bookings'[i] = bookings[i]]_vars

\* a cancel or reschedule succeeded while the table holds an active row of
\* another client and an active row of another tenant with the same client
\* id, specialist, date and time as a row it changed or cancelled
C37_Witness ==
    /\ last.result.action \in {"reject", "change"}
    /\ last.result.success = TRUE
    /\ \E i, j \in Ids :
          /\ bookings[i].project # ProjectId
          /\ bookings[i].client = last.client
          /\ Active(bookings[i])
          /\ bookings[j].project = ProjectId
          /\ bookings[j].client # last.client
          /\ Active(bookings[j])

\* the slots of row i on the new date are held by another active booking of
\* its specialist in the local store
C38_Occupied(rows, i, new_date) ==
    \E j \in DOMAIN rows \ {i} :
        /\ rows[j].project = ProjectId
        /\ rows[j].specialist = rows[i].specialist
        /\ rows[j].date = new_date
        /\ Active(rows[j])
        /\ Overlap(rows[j], rows[i])

\* C38: in a bulk transfer each of the client's bookings of the source date
\* is judged on its own: it is moved to the new date, and only its date
\* changes, exactly when its slots there are not held by another active
\* booking of its specialist; the others keep their date and are counted as
\* failed; the result is success exactly when at least one booking moved, and
\* a failed transfer changes no row.
C38_EachJudgedOnItsOwn ==
    [][LET r == last'.request
           all == C17_OnSourceDate(r, last'.client)
           new_date == ParseDate(r.date_order)
           moved == IF last'.result.success THEN Range(last'.result.ids)
                    ELSE {}
       IN (/\ last'.handlers = <<"_change_booking", "_change_single_booking">>
           /\ ParseDate(r.date_reject) # NoDate
           /\ new_date # NoDate
           /\ Cardinality(all) > 1)
          => /\ Len(bookings') = Len(bookings)
             /\ moved \subseteq all
             /\ \A i \in moved :
                   bookings'[i] = [bookings[i] EXCEPT !.date = new_date]
             /\ \A i \in Ids \ moved : bookings'[i] = bookings[i]
             /\ last'.env.db = "ok"
                => /\ \A i \in all :
                        i \in moved <=> ~C38_Occupied(bookings', i, new_date)
                   /\ last'.result.failed = Cardinality(all \ moved)
                   /\ last'.result.success = (moved # {})
             /\ last'.env.db # "ok" => ~last'.result.success]_vars

\* a bulk transfer moved one booking and left another one, whose slot on the
\* new date is occupied, on the old date
C38_Witness ==
    /\ last.handlers = <<"_change_booking", "_change_single_booking">>
    /\ last.result.message = "transferred"
    /\ last.result.failed >= 1
    /\ Len(last.result.ids) >= 1
    /\ \E i \in Ids :
          /\ bookings[i].project = ProjectId
          /\ bookings[i].client = last.client
          /\ Active(bookings[i])
          /\ bookings[i].date = ParseDate(last.request.date_reject)
          /\ bookings[i].date # ParseDate(last.request.date_order)
          /\ C38_Occupied(bookings, i, ParseDate(last.request.date_order))

\* ------------------------------------------------- the provider switcher
\* provider_switcher keeps the provider and its history in module globals;
\* its functions have no await, so each call runs to its end
MaxSwitches == 3

\* valid_providers
ValidProviders == {"claude", "o3", "gemini", "grok"}
\* what a caller may pass: the four names and some others
ProviderInputs == ValidProviders \cup {"gpt4", "Claude", NoneStr}

\* a faulty check: every name is accepted
IsValidProviderAny(provider) == TRUE
\* provider not in valid_providers
IsValidProvider(provider) == provider \in ValidProviders

\* a faulty entry: from and to change places
HistoryEntrySwapped(old_provider, provider) ==
    [from |-> provider, to |-> old_provider]
\* the appended dict, without its timestamp
HistoryEntry(old_provider, provider) ==
    [from |-> old_provider, to |-> provider]

ProviderInit ==
    /\ bookings = <<>>
    /\ sheetAvail = InitAvail
    /\ sheetReserved = InitReserved
    /\ last = NoCall
    /\ nOps = 0
    /\ inflight = <<>>
    /\ parse = NoParse
    /\ UnitIdle
    /\ SwitcherInit

ProviderFrame ==
    UNCHANGED <<bookings, sheetAvail, sheetReserved, last, nOps, inflight,
                parse, unit>>

SetCurrentProvider(provider) ==
    /\ IF ~IsValidProvider(provider)
       THEN /\ switch_result' = [NoSwitch EXCEPT !.call = "set",
                                                 !.provider = provider]
            /\ UNCHANGED <<current_provider, provider_history>>
       ELSE /\ Len(provider_history) < MaxSwitches
            /\ current_provider' = provider
            /\ provider_history' =
                  Append(provider_history,
                         HistoryEntry(current_provider, provider))
            /\ switch_result' = [call |-> "set", provider |-> provider,
                                 success |-> TRUE,
                                 old_provider |-> current_provider,
                                 new_provider |-> provider]
    /\ ProviderFrame

\* returns nothing: the success field of switch_result says nothing here
ResetProviderHistory ==
    /\ provider_history' = <<>>
    /\ switch_result' = [NoSwitch EXCEPT !.call = "reset"]
    /\ UNCHANGED current_provider
    /\ ProviderFrame

SetProvider == \E provider \in ProviderInputs : SetCurrentProvider(provider)

ProviderNext ==
    \/ SetProvider
    \/ ResetProviderHistory

ProviderSpec == ProviderInit /\ [][ProviderNext]_vars

\* C39: the current provider is always one of claude, o3, gemini and grok,
\* and a set call with any other name returns success = false and leaves the
\* current provider and the history as they were.
C39_OnlyValidProviders ==
    /\ [](current_provider \in {"claude", "o3", "gemini", "grok"})
    /\ [][(/\ switch_result'.call = "set"
           /\ switch_result'.provider
                \notin {"claude", "o3", "gemini", "grok"})
          => /\ switch_result'.success = FALSE
             /\ current_provider' = current_provider
             /\ provider_history' = provider_history]_vars

\* a set call with an unknown name was refused after an earlier switch
C39_Witness ==
    /\ switch_result.call = "set"
    /\ switch_result.provider = "gpt4"
    /\ switch_result.success = FALSE
    /\ current_provider = "gemini"
    /\ Len(provider_history) = 1

\* C40: each entry of the history starts where the entry before it ended
\* and the last entry ends at the current provider; a successful set call
\* appends exactly one entry, from the provider before the call to the new
\* one; a reset empties the history and keeps the current provider.
C40_HistoryConsistent ==
    /\ [](/\ \A k \in 2..Len(provider_history) :
               provider_history[k].from = provider_history[k - 1].to
          /\ provider_history # <<>>
             => provider_history[Len(provider_history)].to = current_provider)
    /\ [][/\ (switch_result'.call = "set" /\ switch_result'.success)
             => /\ provider_history' =
                     Append(provider_history,
                            [from |-> current_provider,
                             to |-> switch_result'.provider])
                /\ current_provider' = switch_result'.provider
                /\ switch_result'.old_provider = current_provider
                /\ switch_result'.new_provider = current_provider'
          /\ switch_result'.call = "reset"
             => /\ provider_history' = <<>>
                /\ current_provider' = current_provider]_vars

\* after a reset two switches were recorded, the second one starting where
\* the first ended, and the provider is not the default one
C40_Witness ==
    /\ switch_result.call = "set"
    /\ switch_result.success
    /\ Len(provider_history) = 2
    /\ provider_history[1].from = "o3"
    /\ provider_history[1].to = "grok"
    /\ provider_history[2].to = "gemini"
    /\ current_provider = "gemini"

====
